---- MODULE Spec2Model ----
(***************************************************************************)
(* A model of the sljs tree-walking interpreter (src/src/interpret.rs).    *)
(* The evaluation rules are big-step operators, one per `interpret`        *)
(* method, threading the heap: every rule maps (node, heap) to a record    *)
(* [res |-> JSResult<Interpreted>, h |-> heap after].                      *)
(* The heap and object model (crate::heap, crate::object, crate::value)    *)
(* is not part of the sources at hand and follows the specification.       *)
(***************************************************************************)
EXTENDS Integers, Sequences, FiniteSets, TLC

VARIABLES heap, program, result, phase

vars == <<heap, program, result, phase>>

(***************************************************************************)
(* Bounds of the model.                                                    *)
(***************************************************************************)
\* the largest loop counter limit a generated for-statement tests against
MaxLoop == 3
\* the largest number of elements of a generated array iteratee
MaxArrayLen == 2

(***************************************************************************)
(* JSValue: a tagged union, kept in one record shape                       *)
(*   t: the tag, n: number / bool (0,1) / object id, s: string.            *)
(***************************************************************************)
\* `let x = v;`: binds v once for the evaluation of K
Let(v, K(_)) == K(v)

NULL == 0
GLOBAL == 1

Undefined == [t |-> "undefined", n |-> 0, s |-> ""]
Number(n) == [t |-> "number", n |-> n, s |-> ""]
String(s) == [t |-> "string", n |-> 0, s |-> s]
Bool(b) == [t |-> "boolean", n |-> IF b THEN 1 ELSE 0, s |-> ""]
Ref(r) == [t |-> "object", n |-> r, s |-> ""]

\* usize::to_string and str::parse::<usize> on the indices the model uses
Digits == <<"0", "1", "2", "3", "4", "5", "6", "7", "8", "9">>
usize_to_string(i) == IF i < 10 THEN Digits[i + 1] ELSE Digits[(i \div 10) + 1] \o Digits[(i % 10) + 1]
parse_usize_ok(s) == \E i \in 0..99 : usize_to_string(i) = s
parse_usize(s) == CHOOSE i \in 0..99 : usize_to_string(i) = s

JSValue_boolify(v) ==
    CASE v.t = "undefined" -> FALSE
      [] v.t = "boolean" -> v.n = 1
      [] v.t = "number" -> v.n # 0
      [] v.t = "string" -> v.s # ""
      [] v.t = "object" -> v.n # NULL

JSValue_stringify(v) ==
    CASE v.t = "string" -> v.s
      [] v.t = "number" -> IF v.n >= 0 THEN usize_to_string(v.n) ELSE "-" \o usize_to_string(-v.n)
      [] v.t = "boolean" -> IF v.n = 1 THEN "true" ELSE "false"
      [] v.t = "undefined" -> "undefined"
      [] v.t = "object" -> IF v.n = NULL THEN "null" ELSE "[object Object]"

JSValue_strict_eq(a, b) ==
    /\ a.t = b.t
    /\ CASE a.t = "undefined" -> TRUE
         [] a.t = "string" -> a.s = b.s
         [] OTHER -> a.n = b.n

(***************************************************************************)
(* Interpreted: an rvalue Value(v) or an lvalue Member{of, name}.          *)
(***************************************************************************)
Value(v) == [k |-> "Value", v |-> v, of |-> NULL, name |-> ""]
Member(of, name) == [k |-> "Member", v |-> Undefined, of |-> of, name |-> name]
VOID == Value(Undefined)

(***************************************************************************)
(* Exception: UserThrown(value) | Jump(Return | Break | Continue) | typed  *)
(* diagnostic errors.  `lbl` is "" for an unlabeled break / continue.      *)
(***************************************************************************)
Exc(x, v, lbl, r, msg) == [x |-> x, v |-> v, lbl |-> lbl, r |-> r, msg |-> msg]
UserThrown(v) == Exc("UserThrown", v, "", VOID, "")
JumpReturn(r) == Exc("Return", Undefined, "", r, "")
JumpBreak(lbl) == Exc("Break", Undefined, lbl, VOID, "")
JumpContinue(lbl) == Exc("Continue", Undefined, lbl, VOID, "")
TypeError(msg) == Exc("TypeError", Undefined, "", VOID, msg)
ReferenceNotFound(name) == Exc("ReferenceNotFound", Undefined, "", VOID, name)
SetReadonly(name) == Exc("SetReadonly", Undefined, "", VOID, name)
NoLoopForContinueLabel(lbl) == Exc("NoLoopForContinueLabel", Undefined, lbl, VOID, "")
NoExc == Exc("", Undefined, "", VOID, "")

IsJump(e) == e.x \in {"Return", "Break", "Continue"}

\* JSResult<Interpreted> paired with the heap the evaluation leaves behind
Ok(i, h) == [ok |-> TRUE, val |-> i, exc |-> NoExc, h |-> h]
Err(e, h) == [ok |-> FALSE, val |-> VOID, exc |-> e, h |-> h]

(***************************************************************************)
(* JSObject and Property (crate::object).                                  *)
(*   props: the insertion-ordered property map, a sequence of              *)
(*          [name, value, access]; access is a subset of the three flags.  *)
(***************************************************************************)
WRITE == "WRITE"
ENUM == "ENUM"
CONF == "CONF"
Access_all == {WRITE, ENUM, CONF}
Access_empty == {}

Property(name, value, access) == [name |-> name, value |-> value, access |-> access]

\* the object ids Heap::new() gives the built-in prototypes
OBJECT_PROTO == 2
ARRAY_PROTO == 3
ARRAY_POP == 4
OBJECT_CTOR == 5

\* Closure { function, captured_scope }: the function is named, as an Rc names it
Closure(function, captured_scope) == [function |-> function, captured_scope |-> captured_scope]
NoClosure == Closure("", NULL)

JSObject_bare ==
    [props |-> <<>>, proto |-> NULL, is_array |-> FALSE, storage |-> <<>>, hostfn |-> "", closure |-> NoClosure]
JSObject_new == [JSObject_bare EXCEPT !.proto = OBJECT_PROTO]
JSObject_from_array(storage) == [JSObject_bare EXCEPT !.proto = ARRAY_PROTO, !.is_array = TRUE, !.storage = storage]
JSObject_from_hostfn(f) == [JSObject_bare EXCEPT !.hostfn = f]
JSObject_from_closure(closure) == [JSObject_bare EXCEPT !.closure = closure]

\* the position of the own property `name` in the map, 0 when absent
JSObject_index_of(obj, name) ==
    IF \E i \in 1..Len(obj.props) : obj.props[i].name = name
    THEN CHOOSE i \in 1..Len(obj.props) : obj.props[i].name = name
    ELSE 0

JSObject_has_own(obj, name) == JSObject_index_of(obj, name) # 0

\* properties.keys(): the own keys in insertion order
JSObject_keys(obj) == [i \in 1..Len(obj.props) |-> obj.props[i].name]

JSObject_is_index(obj, name) ==
    obj.is_array /\ parse_usize_ok(name) /\ parse_usize(name) < Len(obj.storage)

\* get_own_value: [found, value]
JSObject_get_own_value(obj, name) ==
    IF JSObject_is_index(obj, name)
    THEN [found |-> TRUE, value |-> obj.storage[parse_usize(name) + 1]]
    ELSE IF obj.is_array /\ name = "length"
    THEN [found |-> TRUE, value |-> Number(Len(obj.storage))]
    ELSE IF JSObject_has_own(obj, name)
    THEN [found |-> TRUE, value |-> obj.props[JSObject_index_of(obj, name)].value]
    ELSE [found |-> FALSE, value |-> Undefined]

\* define_own_property / set_hidden / set_nonconf: create or overwrite with explicit flags
JSObject_define(obj, name, value, access) ==
    Let(JSObject_index_of(obj, name), LAMBDA i :
    IF i = 0
    THEN [obj EXCEPT !.props = Append(@, Property(name, value, access))]
    ELSE [obj EXCEPT !.props[i] = Property(name, value, access)])

JSObject_set_hidden(obj, name, value) == JSObject_define(obj, name, value, {WRITE, CONF})
JSObject_set_nonconf(obj, name, value) == JSObject_define(obj, name, value, {WRITE, ENUM})
JSObject_set_system(obj, name, value) == JSObject_define(obj, name, value, Access_empty)

\* set_property: [ok, obj]; not ok is Exception::SetReadonly
JSObject_set_property(obj, name, value) ==
    Let(JSObject_index_of(obj, name), LAMBDA i :
    IF obj.is_array /\ parse_usize_ok(name) /\ parse_usize(name) <= Len(obj.storage)
    THEN Let(parse_usize(name), LAMBDA k :
         [ok |-> TRUE,
          obj |-> IF k < Len(obj.storage)
                  THEN [obj EXCEPT !.storage[k + 1] = value]
                  ELSE [obj EXCEPT !.storage = Append(@, value)]])
    ELSE IF i = 0
    THEN [ok |-> TRUE, obj |-> [obj EXCEPT !.props = Append(@, Property(name, value, Access_all))]]
    ELSE IF WRITE \in obj.props[i].access
    THEN [ok |-> TRUE, obj |-> [obj EXCEPT !.props[i].value = value]]
    ELSE [ok |-> FALSE, obj |-> obj])

\* delete: removes an own property only when CONF is set
JSObject_delete(obj, name) ==
    Let(JSObject_index_of(obj, name), LAMBDA i :
    IF i # 0 /\ CONF \in obj.props[i].access
    THEN [obj EXCEPT !.props = SubSeq(@, 1, i - 1) \o SubSeq(@, i + 1, Len(@))]
    ELSE obj)

\* Array.prototype.pop on the array payload: drops the last element of storage
JSObject_array_pop(obj) ==
    IF obj.is_array /\ Len(obj.storage) > 0
    THEN [obj EXCEPT !.storage = SubSeq(@, 1, Len(@) - 1)]
    ELSE obj

(***************************************************************************)
(* Heap (crate::heap): the object arena, the current scope, the current    *)
(* source location.  `trace` is the history of the values `loc` has taken, *)
(* each with the scope that was current at that moment.                    *)
(***************************************************************************)
SAVED_SCOPE == "[[saved_scope]]"
SCOPE_THIS == "[[this]]"

\* Heap::new(): the global object and the built-ins the model uses;
\* `hasher` is the order in which this process's HashSet hasher drains keys
Heap_new(hasher) ==
    [objs |-> << JSObject_set_hidden(JSObject_bare, "Object", Ref(OBJECT_CTOR)),
                 JSObject_bare,
                 JSObject_set_hidden([JSObject_bare EXCEPT !.proto = OBJECT_PROTO], "pop", Ref(ARRAY_POP)),
                 JSObject_from_hostfn("array_proto_pop"),
                 JSObject_define(JSObject_from_hostfn("object_constructor"), "prototype", Ref(OBJECT_PROTO), Access_empty) >>,
     scope |-> NULL, loc |-> "", trace |-> <<>>, hasher |-> hasher, overflow_checks |-> TRUE]

Heap_get(h, id) == h.objs[id]
Heap_alloc_ref(h) == Len(h.objs) + 1
Heap_alloc(h, obj) == [h EXCEPT !.objs = Append(@, obj)]

\* the locations at which the history also keeps the objects of the heap
SnapshotLocs == {"decl", "after"}

\* heap.loc = node.loc
Heap_set_loc(h, loc) ==
    [h EXCEPT !.loc = loc,
              !.trace = Append(@, [loc |-> loc, scope |-> h.scope,
                                   objs |-> IF loc \in SnapshotLocs THEN h.objs ELSE <<>>])]

\* local_scope().unwrap_or(Heap::GLOBAL)
Heap_local_scope_or_global(h) == IF h.scope = NULL THEN GLOBAL ELSE h.scope

Heap_interpret_this(h) ==
    IF h.scope = NULL THEN GLOBAL
    ELSE JSObject_get_own_value(Heap_get(h, h.scope), SCOPE_THIS).value.n

RECURSIVE JSObject_lookup_owner(_, _, _)
\* the object on the proto chain of `id` that owns `name`, NULL when none does
JSObject_lookup_owner(h, id, name) ==
    IF id = NULL THEN NULL
    ELSE IF JSObject_get_own_value(Heap_get(h, id), name).found THEN id
    ELSE JSObject_lookup_owner(h, Heap_get(h, id).proto, name)

\* lookup_value: own properties first, then the proto chain
JSObject_lookup_value(h, id, name) ==
    Let(JSObject_lookup_owner(h, id, name), LAMBDA owner :
    IF owner = NULL THEN [found |-> FALSE, value |-> Undefined]
    ELSE JSObject_get_own_value(Heap_get(h, owner), name))

Heap_saved_scope(h, id) ==
    Let(JSObject_get_own_value(Heap_get(h, id), SAVED_SCOPE), LAMBDA slot :
    IF slot.found THEN slot.value.n ELSE NULL)

RECURSIVE Heap_lookup_scope(_, _, _)
\* the scope on the lexical chain starting at `id` that binds `name`, NULL when none
Heap_lookup_scope(h, id, name) ==
    IF id = NULL THEN NULL
    ELSE IF JSObject_lookup_owner(h, id, name) # NULL THEN JSObject_lookup_owner(h, id, name)
    ELSE Heap_lookup_scope(h, Heap_saved_scope(h, id), name)

\* lookup_var: Option<Interpreted>
Heap_lookup_var(h, name) ==
    Let(Heap_lookup_scope(h, Heap_local_scope_or_global(h), name), LAMBDA owner :
    IF owner = NULL THEN [found |-> FALSE, place |-> VOID]
    ELSE [found |-> TRUE, place |-> Member(owner, name)])

RECURSIVE Heap_declare_vars(_, _, _)
Heap_declare_vars(h, names, i) ==
    IF i > Len(names) THEN h
    ELSE Let(Heap_local_scope_or_global(h), LAMBDA sc :
         Let(Heap_get(h, sc), LAMBDA obj :
         Heap_declare_vars(
                 IF JSObject_has_own(obj, names[i]) THEN h
                 ELSE [h EXCEPT !.objs[sc] = JSObject_set_nonconf(obj, names[i], Undefined)],
                 names, i + 1)))

\* declare(variables, functions): hoists the `var` names as undefined into the current scope
Heap_declare(h, names) == Heap_declare_vars(h, names, 1)

\* the first half of enter_new_scope: allocate the scope object and make it current
Heap_push_scope(h, this_ref, outer_scope) ==
    Let(JSObject_set_system(JSObject_set_system(JSObject_bare, SCOPE_THIS, Ref(this_ref)),
                            SAVED_SCOPE, Ref(outer_scope)), LAMBDA scope_obj :
    [Heap_alloc(h, scope_obj) EXCEPT !.scope = Heap_alloc_ref(h)])

\* the second half of enter_new_scope: make `old_scope` current again
Heap_pop_scope(h, old_scope) == [h EXCEPT !.scope = old_scope]

\* enter_new_scope(this, outer, body): runs body in a fresh scope and restores
\* the previous scope on every exit path
Heap_enter_new_scope(h, this_ref, outer_scope, Body(_)) ==
    Let(Body(Heap_push_scope(h, this_ref, outer_scope)), LAMBDA r :
    [r EXCEPT !.h = Heap_pop_scope(r.h, h.scope)])

\* Interpreted::to_value: [ok, v, exc]
Interpreted_to_value(i, h) ==
    IF i.k = "Value" THEN [ok |-> TRUE, v |-> i.v, exc |-> NoExc]
    ELSE Let(JSObject_lookup_value(h, i.of, i.name), LAMBDA found :
         IF found.found THEN [ok |-> TRUE, v |-> found.value, exc |-> NoExc]
         ELSE IF i.of = GLOBAL \/ JSObject_has_own(Heap_get(h, i.of), SAVED_SCOPE)
         THEN [ok |-> FALSE, v |-> Undefined, exc |-> ReferenceNotFound(i.name)]
         ELSE [ok |-> TRUE, v |-> Undefined, exc |-> NoExc])

\* Interpreted::put_value: [ok, exc, h]
Interpreted_put_value(i, value, h) ==
    IF i.k = "Value" THEN [ok |-> FALSE, exc |-> TypeError("not assignable"), h |-> h]
    ELSE Let(JSObject_set_property(Heap_get(h, i.of), i.name, value), LAMBDA set :
         IF set.ok THEN [ok |-> TRUE, exc |-> NoExc, h |-> [h EXCEPT !.objs[i.of] = set.obj]]
         ELSE [ok |-> FALSE, exc |-> SetReadonly(i.name), h |-> h])

\* crate::error::ignore_set_readonly applied to the result of a put
ignore_set_readonly(put) ==
    IF ~put.ok /\ put.exc.x = "SetReadonly" THEN [put EXCEPT !.ok = TRUE, !.exc = NoExc] ELSE put

\* JSValue::objectify of a value that is an object reference or a primitive
JSValue_objectify(v) == IF v.t = "object" THEN v.n ELSE NULL

\* JSValue::plus: string concatenation if either side is a string, else addition
JSValue_plus(a, b) ==
    IF a.t = "string" \/ b.t = "string"
    THEN String(JSValue_stringify(a) \o JSValue_stringify(b))
    ELSE Number(a.n + b.n)

\* JSValue::compare with `<` on numbers
JSValue_less(a, b) == Bool(a.n < b.n)

(***************************************************************************)
(* The AST (src/src/ast.rs).  Nodes are records tagged by `type`; every    *)
(* Statement and Expression carries its source location `loc`.             *)
(***************************************************************************)
NoExpr == [type |-> "None", loc |-> ""]

Literal(v, loc) == [type |-> "Literal", value |-> v, loc |-> loc]
Identifier(name, loc) == [type |-> "Identifier", name |-> name, loc |-> loc]
BinaryExpression(l, op, r, loc) == [type |-> "BinaryOp", left |-> l, op |-> op, right |-> r, loc |-> loc]
AssignmentExpression(l, op, r, loc) == [type |-> "Assign", left |-> l, op |-> op, right |-> r, loc |-> loc]
UpdateExpression(op, prefix, arg, loc) == [type |-> "Update", op |-> op, prefix |-> prefix, argument |-> arg, loc |-> loc]
UnaryExpression(op, arg, loc) == [type |-> "Unary", op |-> op, argument |-> arg, loc |-> loc]
MemberExpression(obj, prop, computed, loc) == [type |-> "Member", object |-> obj, property |-> prop, computed |-> computed, loc |-> loc]
NewExpression(callee, args, loc) == [type |-> "New", callee |-> callee, arguments |-> args, loc |-> loc]
CallExpression(callee, args, loc) == [type |-> "Call", callee |-> callee, arguments |-> args, loc |-> loc]
ObjectExpression(props, loc) == [type |-> "Object", properties |-> props, loc |-> loc]
ArrayExpression(elems, loc) == [type |-> "Array", elements |-> elems, loc |-> loc]

\* Function { params, variables, body } behind its Rc, and the expression that holds the Rc
Function(params, variables, body) == [params |-> params, variables |-> variables, body |-> body]
FunctionExpression(func, loc) == [type |-> "Function", func |-> func, loc |-> loc]

SequenceExpression(exprs, loc) == [type |-> "Sequence", expressions |-> exprs, loc |-> loc]

BlockStatement(body, bindings) == [type |-> "Block", body |-> body, bindings |-> bindings]
EmptyStatement(loc) == [type |-> "Empty", loc |-> loc]
ExpressionStatement(e, loc) == [type |-> "Expr", expression |-> e, loc |-> loc]
BlockStmt(block, loc) == [type |-> "Block", body |-> block.body, bindings |-> block.bindings, loc |-> loc]
IfStatement(test, cons, has_alt, alt, loc) == [type |-> "If", test |-> test, consequent |-> cons, has_alternate |-> has_alt, alternate |-> alt, loc |-> loc]
SwitchCase(has_test, test, cons) == [has_test |-> has_test, test |-> test, consequent |-> cons]
SwitchStatement(disc, cases, loc) == [type |-> "Switch", discriminant |-> disc, cases |-> cases, loc |-> loc]
ForStatement(init, has_test, test, has_update, update, body, loc) ==
    [type |-> "For", init |-> init, has_test |-> has_test, test |-> test,
     has_update |-> has_update, update |-> update, body |-> body, loc |-> loc]
ForInStatement(left, right, body, loc) == [type |-> "ForIn", left |-> left, right |-> right, body |-> body, loc |-> loc]
BreakStatement(lbl, loc) == [type |-> "Break", label |-> lbl, loc |-> loc]
ContinueStatement(lbl, loc) == [type |-> "Continue", label |-> lbl, loc |-> loc]
LabelStatement(lbl, body, loc) == [type |-> "Label", label |-> lbl, body |-> body, loc |-> loc]
ReturnStatement(has_arg, arg, loc) == [type |-> "Return", has_argument |-> has_arg, argument |-> arg, loc |-> loc]
ThrowStatement(arg, loc) == [type |-> "Throw", argument |-> arg, loc |-> loc]
CatchClause(param, body) == [param |-> param, body |-> body]
NoCatch == CatchClause("", BlockStatement(<<>>, <<>>))
TryStatement(block, has_handler, handler, has_finalizer, finalizer, loc) ==
    [type |-> "Try", block |-> block, has_handler |-> has_handler, handler |-> handler,
     has_finalizer |-> has_finalizer, finalizer |-> finalizer, loc |-> loc]
VariableDeclarator(name, has_init, init) == [name |-> name, has_init |-> has_init, init |-> init]
VariableDeclaration(decls, loc) == [type |-> "Variable", declarations |-> decls, loc |-> loc]
Program(body, variables) == [body |-> body, variables |-> variables]

(***************************************************************************)
(* The evaluator (src/src/interpret.rs).                                   *)
(***************************************************************************)
RECURSIVE Statement_interpret(_, _)
RECURSIVE Expression_interpret(_, _)
RECURSIVE BlockStatement_run(_, _, _)

\* JSResult<Interpreted> -> JSResult<JSValue>: `?.to_value(heap)`
ToValue(r) ==
    IF r.ok
    THEN Let(Interpreted_to_value(r.val, r.h), LAMBDA tv :
         IF tv.ok THEN Ok(Value(tv.v), r.h) ELSE Err(tv.exc, r.h))
    ELSE r

\* Interpretable::evaluate
Expression_evaluate(e, h) == ToValue(Expression_interpret(e, h))

RECURSIVE BlockStatement_run_completion(_, _, _)
\* a statement loop that keeps the last value that is not void
BlockStatement_run_completion(stmts, n, h) ==
    IF n = 0 THEN Ok(VOID, h)
    ELSE Let(BlockStatement_run_completion(stmts, n - 1, h), LAMBDA res :
         IF res.ok
         THEN Let(Statement_interpret(stmts[n], res.h), LAMBDA r :
              IF r.ok /\ r.val = VOID THEN Ok(res.val, r.h) ELSE r)
         ELSE res)

\* the statement loop of BlockStatement::interpret: the result after the
\* first n statements; a failing statement ends the loop
BlockStatement_run(stmts, n, h) ==
    IF n = 0 THEN Ok(VOID, h)
    ELSE Let(BlockStatement_run(stmts, n - 1, h), LAMBDA res :
         IF res.ok THEN Statement_interpret(stmts[n], res.h) ELSE res)

\* the closure BlockStatement::interpret hands to enter_new_scope
BlockStatement_body(b, h) ==
    Let(Ok(VOID, Heap_declare(h, b.bindings)), LAMBDA declared :
    IF declared.ok THEN BlockStatement_run(b.body, Len(b.body), declared.h) ELSE declared)

\* a block that enters and leaves its scope by hand and forgets to leave on failure
BlockStatement_interpret_no_guard(b, h) ==
    Let(Heap_interpret_this(h), LAMBDA this_ref :
    Let(Heap_local_scope_or_global(h), LAMBDA outer_scope :
    Let(BlockStatement_body(b, Heap_push_scope(h, this_ref, outer_scope)), LAMBDA r :
    IF r.ok THEN [r EXCEPT !.h = Heap_pop_scope(r.h, h.scope)] ELSE r)))

BlockStatement_interpret(b, h) ==
    Heap_enter_new_scope(h, Heap_interpret_this(h), Heap_local_scope_or_global(h),
                         LAMBDA hh : BlockStatement_body(b, hh))

IfStatement_interpret(s, h) ==
    Let(Expression_evaluate(s.test, h), LAMBDA cond :
    IF ~cond.ok THEN cond
    ELSE IF JSValue_boolify(cond.val.v) THEN Statement_interpret(s.consequent, cond.h)
    ELSE IF s.has_alternate THEN Statement_interpret(s.alternate, cond.h)
    ELSE Ok(VOID, cond.h))

BreakStatement_interpret(s, h) == Err(JumpBreak(s.label), h)

ContinueStatement_interpret(s, h) == Err(JumpContinue(s.label), h)

ExpressionStatement_interpret(s, h) == Expression_evaluate(s.expression, h)

ReturnStatement_interpret(s, h) ==
    IF ~s.has_argument THEN Err(JumpReturn(VOID), h)
    ELSE Let(Expression_interpret(s.argument, h), LAMBDA r :
         IF r.ok THEN Err(JumpReturn(r.val), r.h) ELSE r)

ThrowStatement_interpret(s, h) ==
    Let(Expression_evaluate(s.argument, h), LAMBDA r :
    IF r.ok THEN Err(UserThrown(r.val.v), r.h) ELSE r)

\* format!("{:?}", exc) on a diagnostic: the name of the variant, then its payload
Exception_debug(exc) == exc.x \o "(" \o exc.msg \o ")"

\* builtin::error::error_constructor: allocates the Error object for a diagnostic
error_constructor(message, h) ==
    Ok(Value(Ref(Heap_alloc_ref(h))),
       Heap_alloc(h, JSObject_set_property(JSObject_new, "message", String(message)).obj))

\* a Rust panic: unwinds through every frame of the evaluator
Panic(msg) == Exc("Panic", Undefined, "", VOID, msg)

\* a catch clause that binds its parameter in the enclosing scope
CatchClause_body_outer_binding(c, exc, this_ref, h) ==
    Let(IF exc.x = "UserThrown" THEN Ok(Value(exc.v), h)
        ELSE IF IsJump(exc) THEN Err(Panic("Impossible to catch"), h)
        ELSE ToValue(error_constructor(Exception_debug(exc), h)), LAMBDA error_value :
    IF ~error_value.ok THEN error_value
        ELSE Let(Heap_saved_scope(error_value.h, error_value.h.scope), LAMBDA sc :
             Let([error_value.h EXCEPT !.objs[sc] = JSObject_set_nonconf(@, c.param, error_value.val.v)], LAMBDA h1 :
             BlockStatement_interpret(c.body, h1))))

\* a catch clause that gives every diagnostic the same message
CatchClause_body_plain_error(c, exc, this_ref, h) ==
    Let(IF exc.x = "UserThrown" THEN Ok(Value(exc.v), h)
        ELSE IF IsJump(exc) THEN Err(Panic("Impossible to catch"), h)
        ELSE ToValue(error_constructor("Error", h)), LAMBDA error_value :
    IF ~error_value.ok THEN error_value
        ELSE Let(error_value.h.scope, LAMBDA sc :
             Let([error_value.h EXCEPT !.objs[sc] = JSObject_set_nonconf(@, c.param, error_value.val.v)], LAMBDA h1 :
             BlockStatement_interpret(c.body, h1))))

\* the closure CatchClause::interpret hands to enter_new_scope
CatchClause_body(c, exc, this_ref, h) ==
    Let(IF exc.x = "UserThrown" THEN Ok(Value(exc.v), h)
        ELSE IF IsJump(exc) THEN Err(Panic("Impossible to catch"), h)
        ELSE ToValue(error_constructor(Exception_debug(exc), h)), LAMBDA error_value :
    IF ~error_value.ok THEN error_value
        ELSE Let(error_value.h.scope, LAMBDA sc :
             Let([error_value.h EXCEPT !.objs[sc] = JSObject_set_nonconf(@, c.param, error_value.val.v)], LAMBDA h1 :
             BlockStatement_interpret(c.body, h1))))

CatchClause_interpret(c, exc, h) ==
    Let(Heap_interpret_this(h), LAMBDA this_ref :
    Let(Heap_local_scope_or_global(h), LAMBDA scope_ref :
    Heap_enter_new_scope(h, this_ref, scope_ref, LAMBDA hh : CatchClause_body(c, exc, this_ref, hh))))

\* a finalizer whose own failure is dropped
TryStatement_run_finalizer_ignore_failure(s, h) ==
    IF s.has_finalizer
    THEN Ok(VOID, BlockStatement_interpret(s.finalizer, h).h)
    ELSE Ok(VOID, h)

TryStatement_run_finalizer(s, h) ==
    IF s.has_finalizer
    THEN Let(BlockStatement_interpret(s.finalizer, h), LAMBDA r :
         IF r.ok THEN Ok(VOID, r.h) ELSE r)
    ELSE Ok(VOID, h)

\* a try statement that returns a failure of the handler before the finalizer (`catch.interpret(exc, heap)?`)
TryStatement_interpret_handler_early_return(s, h) ==
    Let(BlockStatement_interpret(s.block, h), LAMBDA res :
    IF res.ok \/ IsJump(res.exc)
    THEN Let(TryStatement_run_finalizer(s, res.h), LAMBDA fin :
         IF ~fin.ok THEN fin ELSE [res EXCEPT !.h = fin.h])
    ELSE Let(IF ~s.has_handler THEN res ELSE CatchClause_interpret(s.handler, res.exc, res.h), LAMBDA res2 :
         Let(TryStatement_run_finalizer(s, res2.h), LAMBDA fin :
         IF s.has_handler /\ ~res2.ok THEN res2
             ELSE IF ~fin.ok THEN fin ELSE [res2 EXCEPT !.h = fin.h])))

\* a try statement whose first match arm is `Ok(_)` only, so that jumps reach the handler
TryStatement_interpret_catch_jump(s, h) ==
    Let(BlockStatement_interpret(s.block, h), LAMBDA res :
    IF res.ok
    THEN Let(TryStatement_run_finalizer(s, res.h), LAMBDA fin :
         IF ~fin.ok THEN fin ELSE [res EXCEPT !.h = fin.h])
    ELSE Let(IF ~s.has_handler THEN res ELSE CatchClause_interpret(s.handler, res.exc, res.h), LAMBDA res2 :
         Let(TryStatement_run_finalizer(s, res2.h), LAMBDA fin :
         IF res2.exc.x = "Panic" THEN res2
             ELSE IF ~fin.ok THEN fin ELSE [res2 EXCEPT !.h = fin.h])))

TryStatement_interpret(s, h) ==
    Let(BlockStatement_interpret(s.block, h), LAMBDA res :
    IF res.ok \/ IsJump(res.exc)
    THEN Let(TryStatement_run_finalizer(s, res.h), LAMBDA fin :
         IF ~fin.ok THEN fin ELSE [res EXCEPT !.h = fin.h])
    ELSE IF res.exc.x = "Panic" THEN res
    ELSE Let(IF ~s.has_handler THEN res ELSE CatchClause_interpret(s.handler, res.exc, res.h), LAMBDA res2 :
         Let(TryStatement_run_finalizer(s, res2.h), LAMBDA fin :
         IF res2.exc.x = "Panic" THEN res2
             ELSE IF ~fin.ok THEN fin ELSE [res2 EXCEPT !.h = fin.h])))

(***************************************************************************)
(* Switch, for, for-in, labels.                                            *)
(***************************************************************************)
RECURSIVE SwitchStatement_search(_, _, _, _, _)
\* the search loop: [ok, found_case, default, exc, h]; 0 stands for None
\* a search that goes on after a match, so that the last matching case wins
SwitchStatement_search_last_match(cases, i, default, switchval, h) ==
    IF i > Len(cases) THEN [ok |-> TRUE, found_case |-> 0, default |-> default, exc |-> NoExc, h |-> h]
    ELSE IF ~cases[i].has_test THEN SwitchStatement_search(cases, i + 1, i, switchval, h)
    ELSE Let(Expression_evaluate(cases[i].test, h), LAMBDA caseval :
         IF ~caseval.ok
         THEN [ok |-> FALSE, found_case |-> 0, default |-> default, exc |-> caseval.exc, h |-> caseval.h]
         ELSE Let(SwitchStatement_search(cases, i + 1, default, switchval, caseval.h), LAMBDA rest :
              IF rest.ok /\ rest.found_case = 0 /\ JSValue_strict_eq(switchval, caseval.val.v)
              THEN [rest EXCEPT !.found_case = i]
              ELSE rest))

SwitchStatement_search(cases, i, default, switchval, h) ==
    IF i > Len(cases) THEN [ok |-> TRUE, found_case |-> 0, default |-> default, exc |-> NoExc, h |-> h]
    ELSE IF ~cases[i].has_test THEN SwitchStatement_search(cases, i + 1, i, switchval, h)
    ELSE Let(Expression_evaluate(cases[i].test, h), LAMBDA caseval :
         IF ~caseval.ok
         THEN [ok |-> FALSE, found_case |-> 0, default |-> default, exc |-> caseval.exc, h |-> caseval.h]
         ELSE IF JSValue_strict_eq(switchval, caseval.val.v)
         THEN [ok |-> TRUE, found_case |-> i, default |-> default, exc |-> NoExc, h |-> caseval.h]
         ELSE SwitchStatement_search(cases, i + 1, default, switchval, caseval.h))

RECURSIVE SwitchStatement_execute(_, _, _, _)
\* the execute loop, at statement j of case i
SwitchStatement_execute(cases, i, j, h) ==
    IF i > Len(cases) THEN Ok(VOID, h)
    ELSE IF j > Len(cases[i].consequent) THEN SwitchStatement_execute(cases, i + 1, 1, h)
    ELSE Let(Statement_interpret(cases[i].consequent[j], h), LAMBDA r :
         IF r.ok THEN SwitchStatement_execute(cases, i, j + 1, r.h)
         ELSE IF r.exc.x = "Break" /\ r.exc.lbl = "" THEN Ok(VOID, r.h)
         ELSE r)

SwitchStatement_interpret(s, h) ==
    Let(Expression_evaluate(s.discriminant, h), LAMBDA switchval :
    IF ~switchval.ok THEN switchval
    ELSE Let(SwitchStatement_search(s.cases, 1, 0, switchval.val.v, switchval.h), LAMBDA found :
         IF ~found.ok THEN Err(found.exc, found.h)
         ELSE Let(Len(s.cases) + 1, LAMBDA end :
              Let(IF found.found_case # 0 THEN found.found_case
                  ELSE IF found.default # 0 THEN found.default ELSE end, LAMBDA restart_index :
              SwitchStatement_execute(s.cases, restart_index, 1, found.h)))))

ForStatement_should_iterate(s, h) ==
    IF ~s.has_test THEN Ok(Value(Bool(TRUE)), h)
    ELSE Let(Expression_evaluate(s.test, h), LAMBDA r :
         IF r.ok THEN Ok(Value(Bool(JSValue_boolify(r.val.v))), r.h) ELSE r)

ForStatement_do_update(s, h) ==
    IF s.has_update
    THEN Let(Expression_interpret(s.update, h), LAMBDA r :
         IF r.ok THEN Ok(VOID, r.h) ELSE r)
    ELSE Ok(VOID, h)

RECURSIVE ForStatement_do_loop(_, _)
\* a loop that lets an unlabeled continue out instead of going on with the update
ForStatement_do_loop_continue_escapes(s, h) ==
    Let(ForStatement_should_iterate(s, h), LAMBDA test :
    IF ~test.ok THEN test
    ELSE IF ~JSValue_boolify(test.val.v) THEN Ok(VOID, test.h)
    ELSE Let(Statement_interpret(s.body, test.h), LAMBDA res :
         IF res.ok
         THEN Let(ForStatement_do_update(s, res.h), LAMBDA upd :
              IF ~upd.ok THEN upd ELSE ForStatement_do_loop(s, upd.h))
         ELSE IF res.exc.x = "Break" /\ res.exc.lbl = "" THEN Ok(VOID, res.h)
         ELSE res))

ForStatement_do_loop(s, h) ==
    Let(ForStatement_should_iterate(s, h), LAMBDA test :
    IF ~test.ok THEN test
    ELSE IF ~JSValue_boolify(test.val.v) THEN Ok(VOID, test.h)
    ELSE Let(Statement_interpret(s.body, test.h), LAMBDA res :
         IF res.ok \/ (res.exc.x = "Continue" /\ res.exc.lbl = "")
         THEN Let(ForStatement_do_update(s, res.h), LAMBDA upd :
              IF ~upd.ok THEN upd ELSE ForStatement_do_loop(s, upd.h))
         ELSE IF res.exc.x = "Break" /\ res.exc.lbl = "" THEN Ok(VOID, res.h)
         ELSE res))

ForStatement_interpret(s, h) ==
    Let(Statement_interpret(s.init, h), LAMBDA init :
    IF ~init.ok THEN init
    ELSE Let(ForStatement_do_loop(s, init.h), LAMBDA loop :
         IF ~loop.ok THEN loop ELSE Ok(VOID, loop.h)))

\* the sequence `keys` would be if it kept insertion order: own keys, then array indices
ForIn_insertion_order(object) ==
    JSObject_keys(object) \o
    (IF object.is_array THEN [i \in 1..Len(object.storage) |-> usize_to_string(i - 1)] ELSE <<>>)

SeqRange(q) == {q[i] : i \in 1..Len(q)}

\* HashSet::drain: the keys in the order of the hasher, which is not the insertion order
HashSet_drain(keys, hasher) ==
    SelectSeq(hasher, LAMBDA k : k \in SeqRange(keys)) \o
    SelectSeq(keys, LAMBDA k : k \notin SeqRange(hasher))

ForInTargetVar(decl) == [kind |-> "Var", decl |-> decl, expr |-> NoExpr]
ForInTargetExpr(expr) == [kind |-> "Expr", decl |-> NoExpr, expr |-> expr]

ForIn_returned(r, visited) == [returned |-> TRUE, res |-> r, visited |-> visited, h |-> r.h]

ForIn_goes_on(visited, h) == [returned |-> FALSE, res |-> Ok(VOID, h), visited |-> visited, h |-> h]

\* `object.properties.get(propname)` is enumerable, or propname is an index of an array
ForIn_enumerable(object, propname) ==
    \/ /\ JSObject_index_of(object, propname) # 0
       /\ ENUM \in object.props[JSObject_index_of(object, propname)].access
    \/ /\ JSObject_index_of(object, propname) = 0
       /\ object.is_array
       /\ parse_usize_ok(propname)

\* the body of `for propname in keys.drain()` for one drained key:
\* [returned, res, visited, h]; `returned` when the loop left the function
ForInStatement_visit(s, assignexpr, visited, objref, propname, h) ==
    IF propname \in visited THEN ForIn_goes_on(visited, h)
    ELSE IF ~ForIn_enumerable(Heap_get(h, objref), propname)
    THEN ForIn_goes_on(visited \cup {propname}, h)
    ELSE Let(Expression_interpret(assignexpr, h), LAMBDA target :
         IF ~target.ok THEN ForIn_returned(target, visited \cup {propname})
         ELSE Let(ignore_set_readonly(Interpreted_put_value(
                      target.val,
                      IF parse_usize_ok(propname) THEN Number(parse_usize(propname)) ELSE String(propname),
                      target.h)), LAMBDA put :
              IF ~put.ok THEN ForIn_returned(Err(put.exc, put.h), visited \cup {propname})
              ELSE Let(Statement_interpret(s.body, put.h), LAMBDA body :
                   IF body.ok \/ (body.exc.x = "Continue" /\ body.exc.lbl = "")
                   THEN ForIn_goes_on(visited \cup {propname}, body.h)
                   ELSE IF body.exc.x = "Break" /\ body.exc.lbl = ""
                   THEN ForIn_returned(Ok(VOID, body.h), visited \cup {propname})
                   ELSE ForIn_returned(body, visited \cup {propname}))))

RECURSIVE ForInStatement_drain(_, _, _, _, _, _, _)
\* `for propname in keys.drain()`: the loop after the first n drained keys
ForInStatement_drain(s, assignexpr, visited, objref, keys, n, h) ==
    IF n = 0 THEN ForIn_goes_on(visited, h)
    ELSE Let(ForInStatement_drain(s, assignexpr, visited, objref, keys, n - 1, h), LAMBDA r :
         IF r.returned THEN r
         ELSE ForInStatement_visit(s, assignexpr, r.visited, objref, keys[n], r.h))

RECURSIVE ForInStatement_walk(_, _, _, _, _)
\* `while objref != Heap::NULL`
ForInStatement_walk(s, assignexpr, visited, objref, h) ==
    IF objref = NULL THEN Ok(VOID, h)
    ELSE Let(ForInStatement_drain(s, assignexpr, visited, objref,
                                  HashSet_drain(ForIn_insertion_order(Heap_get(h, objref)), h.hasher),
                                  Len(HashSet_drain(ForIn_insertion_order(Heap_get(h, objref)), h.hasher)),
                                  h), LAMBDA r :
         IF r.returned THEN r.res
         ELSE ForInStatement_walk(s, assignexpr, r.visited, Heap_get(r.h, objref).proto, r.h))

ForInStatement_interpret(s, h) ==
    Let(Expression_evaluate(s.right, h), LAMBDA right :
    IF ~right.ok THEN right
    ELSE ForInStatement_walk(
             s,
             IF s.left.kind = "Expr" THEN s.left.expr ELSE Identifier(s.left.decl.declarations[1].name, ""),
             {},
             JSValue_objectify(right.val.v),
             right.h))

RECURSIVE LabelStatement_continue_loop(_, _)
\* a restart that serves one `continue L` only: the next one leaves the statement
LabelStatement_continue_loop_once(s, h) ==
    IF s.body.type = "For"
    THEN Let(ForStatement_do_update(s.body, h), LAMBDA upd :
         IF ~upd.ok THEN upd
         ELSE Let(ForStatement_do_loop(s.body, upd.h), LAMBDA res :
              IF ~res.ok /\ res.exc.x = "Break" /\ res.exc.lbl = s.label
              THEN Ok(VOID, res.h)
              ELSE IF ~res.ok THEN res
              ELSE Ok(VOID, res.h)))
    ELSE IF s.body.type = "ForIn" THEN Err(Panic("not yet implemented"), h)
    ELSE Err(NoLoopForContinueLabel(s.label), h)

LabelStatement_continue_loop(s, h) ==
    IF s.body.type = "For"
    THEN Let(ForStatement_do_update(s.body, h), LAMBDA upd :
         IF ~upd.ok THEN upd
         ELSE Let(ForStatement_do_loop(s.body, upd.h), LAMBDA res :
              IF ~res.ok /\ res.exc.x = "Continue" /\ res.exc.lbl = s.label
              THEN LabelStatement_continue_loop(s, res.h)
              ELSE IF ~res.ok /\ res.exc.x = "Break" /\ res.exc.lbl = s.label
              THEN Ok(VOID, res.h)
              ELSE IF ~res.ok THEN res
              ELSE Ok(VOID, res.h)))
    ELSE IF s.body.type = "ForIn" THEN Err(Panic("not yet implemented"), h)
    ELSE Err(NoLoopForContinueLabel(s.label), h)

LabelStatement_interpret(s, h) ==
    Let(Statement_interpret(s.body, h), LAMBDA res :
    IF ~res.ok /\ res.exc.x = "Break" /\ res.exc.lbl = s.label THEN Ok(VOID, res.h)
    ELSE IF ~res.ok /\ res.exc.x = "Continue" /\ res.exc.lbl = s.label
    THEN LabelStatement_continue_loop(s, res.h)
    ELSE res)

RECURSIVE VariableDeclaration_run(_, _, _)
\* `for decl in &self.declarations`, at declarator i
VariableDeclaration_run(decls, i, h) ==
    IF i > Len(decls) THEN Ok(VOID, h)
    ELSE IF ~decls[i].has_init THEN VariableDeclaration_run(decls, i + 1, h)
    ELSE Let(Expression_evaluate(decls[i].init, h), LAMBDA value :
         IF ~value.ok THEN value
         ELSE Let(Heap_lookup_var(value.h, decls[i].name), LAMBDA place :
              IF ~place.found THEN Err(Panic("variable not declared"), value.h)
              ELSE Let(ignore_set_readonly(Interpreted_put_value(place.place, value.val.v, value.h)), LAMBDA put :
                   IF ~put.ok THEN Err(put.exc, put.h)
                   ELSE VariableDeclaration_run(decls, i + 1, put.h))))

\* a declaration that first declares its names in the current scope
VariableDeclaration_interpret_declares(s, h) ==
    VariableDeclaration_run(s.declarations, 1,
        Heap_declare(h, [i \in 1..Len(s.declarations) |-> s.declarations[i].name]))

VariableDeclaration_interpret(s, h) == VariableDeclaration_run(s.declarations, 1, h)

(***************************************************************************)
(* Expressions.                                                            *)
(***************************************************************************)
LiteralExpr_interpret(e, h) == Ok(Value(e.value), h)

Identifier_interpret(e, h) ==
    Let(Heap_lookup_var(h, e.name), LAMBDA place :
    Ok(IF place.found THEN place.place ELSE Member(GLOBAL, e.name), h))

\* i32::MAX and i32::MIN
i32_MAX == (2^30 - 1) * 2 + 1
i32_MIN == -i32_MAX - 1

\* `x as i32` and `x as u32` on an f64 holding an integer: the cast saturates
f64_as_i32(x) == IF x < i32_MIN THEN i32_MIN ELSE IF x > i32_MAX THEN i32_MAX ELSE x
f64_as_u32(x) == IF x < 0 THEN 0 ELSE x

\* `x << c` on i32, 0 <= c < 32: the bits shifted out of the word are lost and
\* bit 31 - c of x becomes the sign bit
i32_shl(x, c) ==
    IF c = 0 THEN x
    ELSE IF c = 31 THEN (IF x % 2 = 1 THEN i32_MIN ELSE 0)
    ELSE (x % 2^(31 - c)) * 2^c + (IF (x \div 2^(31 - c)) % 2 = 1 THEN i32_MIN ELSE 0)

\* `x >> c` on i32, 0 <= c < 32: the sign bit is copied in
i32_shr(x, c) == IF c = 31 THEN (IF x < 0 THEN -1 ELSE 0) ELSE x \div 2^c

\* `x >> c` on a u32 that is at most i32::MAX, 0 <= c < 32
u32_shr(x, c) == IF c = 31 THEN 0 ELSE x \div 2^c

\* the closure `bitshl`: ((a as i32) << ((b as u32) & 0x1f) as i32) as f64
bitshl(a, b) == i32_shl(f64_as_i32(a), f64_as_u32(b) % 32)
\* the closure `bitshr`: ((a as i32) >> ((b as u32) & 0x1f) as i32) as f64
bitshr(a, b) == i32_shr(f64_as_i32(a), f64_as_u32(b) % 32)
\* the closure `bitshru`: ((a as u32) >> (b as u32) & 0x1f) as f64, in which
\* `>>` binds tighter than `&`; a count of 32 or more panics in a build with
\* overflow checks and is taken modulo 32 in a build without: [ok, n]
bitshru(a, b, overflow_checks) ==
    IF f64_as_u32(b) >= 32 /\ overflow_checks
    THEN [ok |-> FALSE, n |-> 0]
    ELSE [ok |-> TRUE, n |-> u32_shr(f64_as_u32(a), f64_as_u32(b) % 32) % 32]

\* BinOp::compute on the operators the model uses: [ok, v, exc]
BinOp_compute(op, lval, rval, h) ==
    CASE op = "EqEqEq" -> [ok |-> TRUE, v |-> Bool(JSValue_strict_eq(lval, rval)), exc |-> NoExc]
      [] op = "NotEqEq" -> [ok |-> TRUE, v |-> Bool(~JSValue_strict_eq(lval, rval)), exc |-> NoExc]
      [] op = "Less" -> [ok |-> TRUE, v |-> JSValue_less(lval, rval), exc |-> NoExc]
      [] op = "Plus" -> [ok |-> TRUE, v |-> JSValue_plus(lval, rval), exc |-> NoExc]
      [] op = "Minus" -> [ok |-> TRUE, v |-> Number(lval.n - rval.n), exc |-> NoExc]
      [] op = "LtLt" -> [ok |-> TRUE, v |-> Number(bitshl(lval.n, rval.n)), exc |-> NoExc]
      [] op = "GtGt" -> [ok |-> TRUE, v |-> Number(bitshr(lval.n, rval.n)), exc |-> NoExc]
      [] op = "GtGtGt" ->
            Let(bitshru(lval.n, rval.n, h.overflow_checks), LAMBDA r :
            IF r.ok THEN [ok |-> TRUE, v |-> Number(r.n), exc |-> NoExc]
            ELSE [ok |-> FALSE, v |-> Undefined, exc |-> Panic("attempt to shift right with overflow")])

\* a binary expression that evaluates its right operand first
BinaryExpression_interpret_right_first(e, h) ==
    Let(Expression_evaluate(e.right, h), LAMBDA rval :
    IF ~rval.ok THEN rval
    ELSE Let(Expression_evaluate(e.left, rval.h), LAMBDA lval :
         IF ~lval.ok THEN lval
         ELSE Let(BinOp_compute(e.op, lval.val.v, rval.val.v, lval.h), LAMBDA res :
              IF res.ok THEN Ok(Value(res.v), lval.h) ELSE Err(res.exc, lval.h))))

BinaryExpression_interpret(e, h) ==
    Let(Expression_evaluate(e.left, h), LAMBDA lval :
    IF ~lval.ok THEN lval
    ELSE Let(Expression_evaluate(e.right, lval.h), LAMBDA rval :
         IF ~rval.ok THEN rval
         ELSE Let(BinOp_compute(e.op, lval.val.v, rval.val.v, rval.h), LAMBDA res :
              IF res.ok THEN Ok(Value(res.v), rval.h) ELSE Err(res.exc, rval.h))))

\* JSValue::type_of
JSValue_type_of(v) == v.t

\* Interpreted::delete: [ok, h]
Interpreted_delete(i, h) ==
    IF i.k = "Value" THEN [ok |-> TRUE, h |-> h]
    ELSE Let(Heap_get(h, i.of), LAMBDA object :
         Let(JSObject_index_of(object, i.name), LAMBDA p :
         IF p = 0 THEN [ok |-> TRUE, h |-> h]
             ELSE IF CONF \in object.props[p].access
             THEN [ok |-> TRUE, h |-> [h EXCEPT !.objs[i.of] = JSObject_delete(object, i.name)]]
             ELSE [ok |-> FALSE, h |-> h]))

\* a `typeof` that resolves its operand as the other operators do
UnaryExpression_interpret_typeof_raises(e, h) ==
    Let(Expression_interpret(e.argument, h), LAMBDA arg :
    IF ~arg.ok THEN arg
    ELSE Let(Interpreted_to_value(arg.val, arg.h), LAMBDA argvalue :
         CASE e.op = "Exclamation" ->
                IF argvalue.ok THEN Ok(Value(Bool(~JSValue_boolify(argvalue.v))), arg.h)
                ELSE Err(argvalue.exc, arg.h)
           [] e.op = "Void" -> Ok(Value(Undefined), arg.h)
           [] e.op = "Typeof" ->
                IF argvalue.ok THEN Ok(Value(String(JSValue_type_of(argvalue.v))), arg.h)
                ELSE Err(argvalue.exc, arg.h)
           [] e.op = "Delete" ->
                Let(Interpreted_delete(arg.val, arg.h), LAMBDA del :
                Ok(Value(Bool(del.ok)), del.h))))

UnaryExpression_interpret(e, h) ==
    Let(Expression_interpret(e.argument, h), LAMBDA arg :
    IF ~arg.ok THEN arg
    ELSE Let(Interpreted_to_value(arg.val, arg.h), LAMBDA argvalue :
         CASE e.op = "Exclamation" ->
                IF argvalue.ok THEN Ok(Value(Bool(~JSValue_boolify(argvalue.v))), arg.h)
                ELSE Err(argvalue.exc, arg.h)
           [] e.op = "Void" -> Ok(Value(Undefined), arg.h)
           [] e.op = "Typeof" ->
                Ok(Value(String(IF argvalue.ok THEN JSValue_type_of(argvalue.v) ELSE "undefined")), arg.h)
           [] e.op = "Delete" ->
                Let(Interpreted_delete(arg.val, arg.h), LAMBDA del :
                Ok(Value(Bool(del.ok)), del.h))))

UpdateExpression_interpret(e, h) ==
    Let(Expression_interpret(e.argument, h), LAMBDA assignee :
    IF ~assignee.ok THEN assignee
    ELSE Let(Interpreted_to_value(assignee.val, assignee.h), LAMBDA oldvalue :
         IF ~oldvalue.ok THEN Err(oldvalue.exc, assignee.h)
         ELSE Let(oldvalue.v.n, LAMBDA oldnum :
              Let(IF e.op = "Increment" THEN oldnum + 1 ELSE oldnum - 1, LAMBDA newnum :
              Let(ignore_set_readonly(Interpreted_put_value(assignee.val, Number(newnum), assignee.h)), LAMBDA put :
              IF ~put.ok THEN Err(put.exc, put.h)
                  ELSE Ok(Value(Number(IF e.prefix THEN newnum ELSE oldnum)), put.h))))))

MemberExpression_interpret(e, h) ==
    Let(IF e.computed THEN Let(Expression_evaluate(e.property, h), LAMBDA propval :
                           IF propval.ok THEN Ok(Value(String(JSValue_stringify(propval.val.v))), propval.h) ELSE propval)
        ELSE Ok(Value(String(e.property.name)), h), LAMBDA prop :
    IF ~prop.ok THEN prop
        ELSE Let(prop.val.v.s, LAMBDA propname :
             Let(Expression_interpret(e.object, prop.h), LAMBDA objresult :
             IF ~objresult.ok THEN objresult
                 ELSE Let(Interpreted_to_value(objresult.val, objresult.h), LAMBDA objvalue :
                      IF ~objvalue.ok THEN Err(objvalue.exc, objresult.h)
                      ELSE IF objvalue.v.t = "undefined" THEN Err(TypeError("not an object"), objresult.h)
                      ELSE Let(JSValue_objectify(objvalue.v), LAMBDA objref :
                           IF propname = "__proto__"
                           THEN Ok(Value(Ref(Heap_get(objresult.h, objref).proto)), objresult.h)
                           ELSE Ok(Member(objref, propname), objresult.h))))))

RECURSIVE ObjectExpression_run(_, _, _, _)
\* `for (key, valexpr) in self.0.iter()`, at property i, building `object`
ObjectExpression_run(props, i, object, h) ==
    IF i > Len(props) THEN Ok(Value(Ref(Heap_alloc_ref(h))), Heap_alloc(h, object))
    ELSE Let(IF props[i].computed THEN Let(Expression_evaluate(props[i].key, h), LAMBDA r :
                                       IF r.ok THEN Ok(Value(String(JSValue_stringify(r.val.v))), r.h) ELSE r)
             ELSE Ok(Value(String(props[i].key.name)), h), LAMBDA keyname :
         IF ~keyname.ok THEN keyname
             ELSE Let(Expression_evaluate(props[i].value, keyname.h), LAMBDA value :
                  IF ~value.ok THEN value
                  ELSE Let(JSObject_set_property(object, keyname.val.v.s, value.val.v), LAMBDA set :
                       IF ~set.ok THEN Err(SetReadonly(keyname.val.v.s), value.h)
                       ELSE ObjectExpression_run(props, i + 1, set.obj, value.h))))

ObjectProperty(key, computed, value) == [key |-> key, computed |-> computed, value |-> value]

ObjectExpression_interpret(e, h) == ObjectExpression_run(e.properties, 1, JSObject_new, h)

RECURSIVE ArrayExpression_run(_, _, _, _)
ArrayExpression_run(exprs, i, storage, h) ==
    IF i > Len(exprs)
    THEN Ok(Value(Ref(Heap_alloc_ref(h))), Heap_alloc(h, JSObject_from_array(storage)))
    ELSE Let(Expression_evaluate(exprs[i], h), LAMBDA value :
         IF ~value.ok THEN value
         ELSE ArrayExpression_run(exprs, i + 1, Append(storage, value.val.v), value.h))

ArrayExpression_interpret(e, h) == ArrayExpression_run(e.elements, 1, <<>>, h)

RECURSIVE SequenceExpression_run(_, _, _, _)
\* `for expr in exprs.iter()`, at expression i, `value` being the last value
SequenceExpression_run(exprs, i, value, h) ==
    IF i > Len(exprs) THEN Ok(Value(value), h)
    ELSE Let(Expression_evaluate(exprs[i], h), LAMBDA r :
         IF ~r.ok THEN r ELSE SequenceExpression_run(exprs, i + 1, r.val.v, r.h))

SequenceExpression_interpret(e, h) == SequenceExpression_run(e.expressions, 1, Undefined, h)

\* an assignment that evaluates its target before its value
AssignmentExpression_interpret_left_first(e, h) ==
    Let(Expression_interpret(e.left, h), LAMBDA assignee :
    IF ~assignee.ok THEN assignee
    ELSE Let(Expression_evaluate(e.right, assignee.h), LAMBDA value :
         IF ~value.ok THEN value
         ELSE Let(IF e.op = "" THEN [ok |-> TRUE, v |-> value.val.v, exc |-> NoExc]
                  ELSE Let(Interpreted_to_value(assignee.val, value.h), LAMBDA oldvalue :
                       IF ~oldvalue.ok THEN oldvalue
                       ELSE BinOp_compute(e.op, oldvalue.v, value.val.v, value.h)), LAMBDA newvalue :
              IF ~newvalue.ok THEN Err(newvalue.exc, value.h)
                  ELSE Let(ignore_set_readonly(Interpreted_put_value(assignee.val, newvalue.v, value.h)), LAMBDA put :
                       IF ~put.ok THEN Err(put.exc, put.h)
                       ELSE Ok(Value(newvalue.v), put.h)))))

\* an assignment that lets Exception::SetReadonly out
AssignmentExpression_interpret_strict(e, h) ==
    Let(Expression_evaluate(e.right, h), LAMBDA value :
    IF ~value.ok THEN value
    ELSE Let(Expression_interpret(e.left, value.h), LAMBDA assignee :
         IF ~assignee.ok THEN assignee
         ELSE Let(IF e.op = "" THEN [ok |-> TRUE, v |-> value.val.v, exc |-> NoExc]
                  ELSE Let(Interpreted_to_value(assignee.val, assignee.h), LAMBDA oldvalue :
                       IF ~oldvalue.ok THEN oldvalue
                       ELSE BinOp_compute(e.op, oldvalue.v, value.val.v, assignee.h)), LAMBDA newvalue :
              IF ~newvalue.ok THEN Err(newvalue.exc, assignee.h)
                  ELSE Let(Interpreted_put_value(assignee.val, newvalue.v, assignee.h), LAMBDA put :
                       IF ~put.ok THEN Err(put.exc, put.h)
                       ELSE Ok(Value(newvalue.v), put.h)))))

AssignmentExpression_interpret(e, h) ==
    Let(Expression_evaluate(e.right, h), LAMBDA value :
    IF ~value.ok THEN value
    ELSE Let(Expression_interpret(e.left, value.h), LAMBDA assignee :
         IF ~assignee.ok THEN assignee
         ELSE Let(IF e.op = "" THEN [ok |-> TRUE, v |-> value.val.v, exc |-> NoExc]
                  ELSE Let(Interpreted_to_value(assignee.val, assignee.h), LAMBDA oldvalue :
                       IF ~oldvalue.ok THEN oldvalue
                       ELSE BinOp_compute(e.op, oldvalue.v, value.val.v, assignee.h)), LAMBDA newvalue :
              IF ~newvalue.ok THEN Err(newvalue.exc, assignee.h)
                  ELSE Let(ignore_set_readonly(Interpreted_put_value(assignee.val, newvalue.v, assignee.h)), LAMBDA put :
                       IF ~put.ok THEN Err(put.exc, put.h)
                       ELSE Ok(Value(newvalue.v), put.h)))))

RECURSIVE CallExpression_arguments(_, _, _, _)
\* the arguments of a call, interpreted left to right: [ok, args, exc, h]
CallExpression_arguments(exprs, i, args, h) ==
    IF i > Len(exprs) THEN [ok |-> TRUE, args |-> args, exc |-> NoExc, h |-> h]
    ELSE Let(Expression_interpret(exprs[i], h), LAMBDA r :
         IF ~r.ok THEN [ok |-> FALSE, args |-> args, exc |-> r.exc, h |-> r.h]
         ELSE CallExpression_arguments(exprs, i + 1, Append(args, r.val), r.h))

\* Interpreted::to_ref: [ok, r, exc]; the value must be an object reference
Interpreted_to_ref(i, h) ==
    Let(Interpreted_to_value(i, h), LAMBDA value :
    IF ~value.ok THEN [ok |-> FALSE, r |-> NULL, exc |-> value.exc]
    ELSE IF value.v.t # "object" THEN [ok |-> FALSE, r |-> NULL, exc |-> TypeError("not an object")]
    ELSE [ok |-> TRUE, r |-> value.v.n, exc |-> NoExc])

\* Interpreted::resolve_call: [ok, func_ref, this_ref, exc]
Interpreted_resolve_call(callee, h) ==
    Let(Interpreted_to_value(callee, h), LAMBDA func :
    IF ~func.ok THEN [ok |-> FALSE, func_ref |-> NULL, this_ref |-> NULL, exc |-> func.exc]
    ELSE IF func.v.t # "object" \/ func.v.n = NULL
    THEN [ok |-> FALSE, func_ref |-> NULL, this_ref |-> NULL, exc |-> TypeError("not callable")]
    ELSE [ok |-> TRUE, func_ref |-> func.v.n,
          this_ref |-> IF callee.k = "Member" THEN callee.of ELSE NULL, exc |-> NoExc])

\* the functions the programs of the model hold behind an Rc, by name
Functions(name) ==
    CASE name = "F" -> Function(<<>>, <<>>, BlockStatement(<<>>, <<>>))
      [] name = "A" -> Function(<<"a">>, <<"v">>,
                                BlockStatement(<<ReturnStatement(TRUE, Identifier("a", ""), "ret")>>, <<>>))

RECURSIVE Heap_bind_params(_, _, _, _)
\* binds the first n formals positionally in the current scope; a missing argument is undefined
Heap_bind_params(h, params, args, n) ==
    IF n = 0 THEN h
    ELSE Let(Heap_bind_params(h, params, args, n - 1), LAMBDA hh :
         [hh EXCEPT !.objs[hh.scope] =
             JSObject_set_nonconf(Heap_get(hh, hh.scope), params[n],
                                  IF n <= Len(args) /\ Interpreted_to_value(args[n], hh).ok
                                  THEN Interpreted_to_value(args[n], hh).v ELSE Undefined)])

\* Closure::call: the activation runs in a new scope whose parent is the captured
\* scope; a Return jump is the value of the call
Closure_call(closure, this_ref, args, h) ==
    Let(Heap_enter_new_scope(h, this_ref, closure.captured_scope, LAMBDA hh :
            BlockStatement_interpret(
                Functions(closure.function).body,
                Heap_declare(Heap_bind_params(hh, Functions(closure.function).params, args,
                                              Len(Functions(closure.function).params)),
                             Functions(closure.function).variables))), LAMBDA r :
    IF r.ok THEN Ok(VOID, r.h)
    ELSE IF r.exc.x = "Return" THEN ToValue(Ok(r.exc.r, r.h))
    ELSE r)

\* host functions that record their invocation in the global object (`calls`,
\* `self`, `argc`, and in `at` the location current at the call) and return a
\* fixed kind of value
ProbeFunctions == {"probe_undefined", "probe_number", "probe_null", "probe_object", "probe_this"}

ProbeReturns(hostfn, this_ref) ==
    CASE hostfn = "probe_undefined" -> Undefined
      [] hostfn = "probe_number" -> Number(7)
      [] hostfn = "probe_null" -> Ref(NULL)
      [] hostfn = "probe_object" -> Ref(ARRAY_PROTO)
      [] hostfn = "probe_this" -> Ref(this_ref)

\* Heap::execute: dispatches on the payload of the callee
Heap_execute(func_ref, this_ref, args, h) ==
    Let(Heap_get(h, func_ref), LAMBDA func :
    IF func.closure # NoClosure THEN Closure_call(func.closure, this_ref, args, h)
    ELSE IF func.hostfn = "array_proto_pop" /\ this_ref # NULL
    THEN Let(Heap_get(h, this_ref), LAMBDA array :
         Ok(Value(IF array.is_array /\ Len(array.storage) > 0
                  THEN array.storage[Len(array.storage)] ELSE Undefined),
            [h EXCEPT !.objs[this_ref] = JSObject_array_pop(array)]))
    ELSE IF func.hostfn \in ProbeFunctions
    THEN Let(JSObject_define(JSObject_define(JSObject_define(JSObject_define(Heap_get(h, GLOBAL),
                 "calls", Number(JSObject_get_own_value(Heap_get(h, GLOBAL), "calls").value.n + 1), Access_all),
                 "self", Ref(this_ref), Access_all),
                 "argc", Number(Len(args)), Access_all),
                 "at", String(h.loc), Access_all), LAMBDA global :
         Ok(Value(ProbeReturns(func.hostfn, this_ref)), [h EXCEPT !.objs[GLOBAL] = global]))
    ELSE Err(TypeError("not callable"), h))

\* CallExpression::interpret evaluating the callee before the arguments
CallExpression_interpret_callee_first(e, h) ==
    Let(Expression_interpret(e.callee, h), LAMBDA callee :
    IF ~callee.ok THEN callee
    ELSE Let(CallExpression_arguments(e.arguments, 1, <<>>, callee.h), LAMBDA arguments :
         IF ~arguments.ok THEN Err(arguments.exc, arguments.h)
         ELSE Let(Interpreted_resolve_call(callee.val, arguments.h), LAMBDA call :
              IF ~call.ok THEN Err(call.exc, arguments.h)
              ELSE Heap_execute(call.func_ref, call.this_ref, arguments.args, arguments.h))))

CallExpression_interpret(e, h) ==
    Let(CallExpression_arguments(e.arguments, 1, <<>>, h), LAMBDA arguments :
    IF ~arguments.ok THEN Err(arguments.exc, arguments.h)
    ELSE Let(Expression_interpret(e.callee, arguments.h), LAMBDA callee :
         IF ~callee.ok THEN callee
         ELSE Let(Interpreted_resolve_call(callee.val, callee.h), LAMBDA call :
              IF ~call.ok THEN Err(call.exc, callee.h)
              ELSE Heap_execute(call.func_ref, call.this_ref, arguments.args, callee.h))))

\* NewExpression::interpret yielding the fresh object whatever the call returns
NewExpression_interpret_result_ignored(e, h) ==
    Let(CallExpression_arguments(e.arguments, 1, <<>>, h), LAMBDA arguments :
    IF ~arguments.ok THEN Err(arguments.exc, arguments.h)
    ELSE Let(Expression_interpret(e.callee, arguments.h), LAMBDA callee :
    IF ~callee.ok THEN callee
    ELSE Let(Interpreted_to_ref(callee.val, callee.h), LAMBDA funcref :
    IF ~funcref.ok THEN Err(funcref.exc, callee.h)
    ELSE IF funcref.r = NULL THEN Err(Panic("heap.get(NULL)"), callee.h)
    ELSE Let(JSObject_get_own_value(Heap_get(callee.h, funcref.r), "prototype"), LAMBDA prototype :
    IF ~prototype.found THEN Err(TypeError("cannot get property prototype"), callee.h)
    ELSE Let(Interpreted_to_ref(Value(prototype.value), callee.h), LAMBDA prototype_ref :
    IF ~prototype_ref.ok THEN Err(prototype_ref.exc, callee.h)
    ELSE Let(Heap_alloc_ref(callee.h), LAMBDA object_ref :
         Let(Heap_execute(funcref.r, object_ref, arguments.args,
                          Heap_alloc(callee.h, [JSObject_new EXCEPT !.proto = prototype_ref.r])),
             LAMBDA called :
         IF ~called.ok THEN called
         ELSE Ok(Value(Ref(object_ref)), called.h))))))))

\* a function expression whose `constructor` backlink is an ordinary property
FunctionExpression_interpret_enumerable_constructor(e, h) ==
    Let(Closure(e.func, Heap_local_scope_or_global(h)), LAMBDA closure :
    Let(Heap_alloc_ref(h), LAMBDA function_ref :
    Let(Heap_alloc(h, JSObject_from_closure(closure)), LAMBDA h1 :
    Let(Heap_alloc_ref(h1), LAMBDA prototype_ref :
    Let(Heap_alloc(h1, JSObject_new), LAMBDA h2 :
    Let(JSObject_set_property(JSObject_define(Heap_get(h2, function_ref), "prototype", Undefined, {WRITE}),
                              "prototype", Ref(prototype_ref)), LAMBDA set :
    IF ~set.ok THEN Err(SetReadonly("prototype"), h2)
    ELSE Ok(Value(Ref(function_ref)),
            [h2 EXCEPT !.objs[function_ref] = set.obj,
                       !.objs[prototype_ref] = JSObject_define(@, "constructor", Ref(function_ref), Access_all)])))))))

FunctionExpression_interpret(e, h) ==
    Let(Closure(e.func, Heap_local_scope_or_global(h)), LAMBDA closure :
    Let(Heap_alloc_ref(h), LAMBDA function_ref :
    Let(Heap_alloc(h, JSObject_from_closure(closure)), LAMBDA h1 :
    Let(Heap_alloc_ref(h1), LAMBDA prototype_ref :
    Let(Heap_alloc(h1, JSObject_new), LAMBDA h2 :
    Let(JSObject_set_property(JSObject_define(Heap_get(h2, function_ref), "prototype", Undefined, {WRITE}),
                              "prototype", Ref(prototype_ref)), LAMBDA set :
    IF ~set.ok THEN Err(SetReadonly("prototype"), h2)
    ELSE Ok(Value(Ref(function_ref)),
            [h2 EXCEPT !.objs[function_ref] = set.obj,
                       !.objs[prototype_ref] = JSObject_set_hidden(@, "constructor", Ref(function_ref))])))))))

NewExpression_interpret(e, h) ==
    Let(CallExpression_arguments(e.arguments, 1, <<>>, h), LAMBDA arguments :
    IF ~arguments.ok THEN Err(arguments.exc, arguments.h)
    ELSE Let(Expression_interpret(e.callee, arguments.h), LAMBDA callee :
    IF ~callee.ok THEN callee
    ELSE Let(Interpreted_to_ref(callee.val, callee.h), LAMBDA funcref :
    IF ~funcref.ok THEN Err(funcref.exc, callee.h)
    ELSE IF funcref.r = NULL THEN Err(Panic("heap.get(NULL)"), callee.h)
    ELSE Let(JSObject_get_own_value(Heap_get(callee.h, funcref.r), "prototype"), LAMBDA prototype :
    IF ~prototype.found THEN Err(TypeError("cannot get property prototype"), callee.h)
    ELSE Let(Interpreted_to_ref(Value(prototype.value), callee.h), LAMBDA prototype_ref :
    IF ~prototype_ref.ok THEN Err(prototype_ref.exc, callee.h)
    ELSE Let(Heap_alloc_ref(callee.h), LAMBDA object_ref :
         Let(Heap_execute(funcref.r, object_ref, arguments.args,
                          Heap_alloc(callee.h, [JSObject_new EXCEPT !.proto = prototype_ref.r])),
             LAMBDA called :
         IF ~called.ok THEN called
         ELSE IF called.val.k = "Value" /\ called.val.v.t = "object" /\ called.val.v.n # NULL
         THEN called
         ELSE Ok(Value(Ref(object_ref)), called.h))))))))

Expression_interpret(e, h) ==
    CASE e.type = "Literal" -> LiteralExpr_interpret(e, Heap_set_loc(h, e.loc))
      [] e.type = "Identifier" -> Identifier_interpret(e, Heap_set_loc(h, e.loc))
      [] e.type = "BinaryOp" -> BinaryExpression_interpret(e, Heap_set_loc(h, e.loc))
      [] e.type = "Call" -> CallExpression_interpret(e, Heap_set_loc(h, e.loc))
      [] e.type = "Array" -> ArrayExpression_interpret(e, Heap_set_loc(h, e.loc))
      [] e.type = "Member" -> MemberExpression_interpret(e, Heap_set_loc(h, e.loc))
      [] e.type = "Object" -> ObjectExpression_interpret(e, Heap_set_loc(h, e.loc))
      [] e.type = "Assign" -> AssignmentExpression_interpret(e, Heap_set_loc(h, e.loc))
      [] e.type = "Unary" -> UnaryExpression_interpret(e, Heap_set_loc(h, e.loc))
      [] e.type = "Update" -> UpdateExpression_interpret(e, Heap_set_loc(h, e.loc))
      [] e.type = "Sequence" -> SequenceExpression_interpret(e, Heap_set_loc(h, e.loc))
      [] e.type = "New" -> NewExpression_interpret(e, Heap_set_loc(h, e.loc))
      [] e.type = "Function" -> FunctionExpression_interpret(e, Heap_set_loc(h, e.loc))

Statement_interpret(s, h) ==
    CASE s.type = "Empty" -> Ok(VOID, Heap_set_loc(h, s.loc))
      [] s.type = "Expr" -> ExpressionStatement_interpret(s, Heap_set_loc(h, s.loc))
      [] s.type = "Block" -> BlockStatement_interpret(s, Heap_set_loc(h, s.loc))
      [] s.type = "If" -> IfStatement_interpret(s, Heap_set_loc(h, s.loc))
      [] s.type = "Switch" -> SwitchStatement_interpret(s, Heap_set_loc(h, s.loc))
      [] s.type = "For" -> ForStatement_interpret(s, Heap_set_loc(h, s.loc))
      [] s.type = "ForIn" -> ForInStatement_interpret(s, Heap_set_loc(h, s.loc))
      [] s.type = "Break" -> BreakStatement_interpret(s, Heap_set_loc(h, s.loc))
      [] s.type = "Continue" -> ContinueStatement_interpret(s, Heap_set_loc(h, s.loc))
      [] s.type = "Label" -> LabelStatement_interpret(s, Heap_set_loc(h, s.loc))
      [] s.type = "Return" -> ReturnStatement_interpret(s, Heap_set_loc(h, s.loc))
      [] s.type = "Throw" -> ThrowStatement_interpret(s, Heap_set_loc(h, s.loc))
      [] s.type = "Try" -> TryStatement_interpret(s, Heap_set_loc(h, s.loc))
      [] s.type = "Variable" -> VariableDeclaration_interpret(s, Heap_set_loc(h, s.loc))

\* a program whose `var` names are bound in the scope of its body block
Program_interpret_block_scoped(p, h) ==
    BlockStatement_interpret([p.body EXCEPT !.bindings = @ \o p.variables], h)

Program_interpret(p, h) ==
    BlockStatement_interpret(p.body, Heap_declare(h, p.variables))

\* Heap::evaluate(program): interpret, then resolve the result to a value
Heap_evaluate(p, h) == ToValue(Program_interpret(p, h))

(***************************************************************************)
(* The programs the model evaluates.  A leaf is a one-statement body with  *)
(* a known outcome; `loc` tags the statement so the location history       *)
(* shows when it ran.                                                      *)
(***************************************************************************)
Leaf(kind, loc) ==
    CASE kind = "normal" -> ExpressionStatement(Literal(Number(1), loc \o ".e"), loc)
      [] kind = "throw_e" -> ThrowStatement(Literal(String("e"), loc \o ".e"), loc)
      [] kind = "throw_7" -> ThrowStatement(Literal(Number(7), loc \o ".e"), loc)
      [] kind = "type_error" ->
            ExpressionStatement(
                MemberExpression(Identifier("u", loc \o ".o"), Identifier("p", loc \o ".p"), FALSE, loc \o ".e"), loc)
      [] kind = "return" -> ReturnStatement(TRUE, Literal(Number(7), loc \o ".e"), loc)
      [] kind = "break" -> BreakStatement("", loc)
      [] kind = "continue" -> ContinueStatement("", loc)
      [] kind = "break_L" -> BreakStatement("L", loc)
      [] kind = "continue_L" -> ContinueStatement("L", loc)
      [] kind = "break_M" -> BreakStatement("M", loc)
      [] kind = "continue_M" -> ContinueStatement("M", loc)
      [] kind = "param" -> ExpressionStatement(Identifier("x", loc \o ".e"), loc)
      [] kind = "param_bang" ->
            ExpressionStatement(
                BinaryExpression(Identifier("x", loc \o ".l"), "Plus", Literal(String("!"), loc \o ".r"), loc \o ".e"), loc)

ThrowKinds == {"throw_e", "throw_7", "type_error"}
JumpKinds == {"return", "break", "continue", "break_L", "continue_L"}
BlockKinds == {"normal"} \cup ThrowKinds \cup JumpKinds
HandlerKinds == BlockKinds \cup {"param", "param_bang"}

\* try { <block> } catch (x) { <handler> } finally { ; <finalizer> }
\* with the catch clause and the finalizer optional
TryProgram(d) ==
    Program(
        BlockStatement(<<
            TryStatement(
                BlockStatement(<<Leaf(d.block, "B")>>, <<>>),
                d.has_handler,
                IF d.has_handler THEN CatchClause("x", BlockStatement(<<Leaf(d.handler, "H")>>, <<>>)) ELSE NoCatch,
                d.has_finalizer,
                IF d.has_finalizer
                THEN BlockStatement(<<EmptyStatement("F"), Leaf(d.finalizer, "FS")>>, <<>>)
                ELSE BlockStatement(<<>>, <<>>),
                "try")>>, <<>>),
        <<"u">>)

TryPrograms ==
    {[family |-> "Try", block |-> b, has_handler |-> hh, handler |-> hk, has_finalizer |-> hf, finalizer |-> fk] :
        b \in BlockKinds, hh \in BOOLEAN, hk \in HandlerKinds, hf \in BOOLEAN, fk \in BlockKinds}

\* switch (<disc>) { case <test>: <body> ... } with up to three cases;
\* a case with test 0 is the default case, a case of kind "absent" is left out
SwitchTests == {0, 1, 2}
SwitchBodies == {"normal", "break", "continue", "throw_e"}
SwitchCaseKinds == {[test |-> t, body |-> b] : t \in SwitchTests, b \in SwitchBodies}
SwitchCaseLists ==
    {<<>>} \cup {<<c1>> : c1 \in SwitchCaseKinds}
           \cup {<<c1, c2>> : c1 \in SwitchCaseKinds, c2 \in SwitchCaseKinds}
           \cup {<<c1, c2, c3>> : c1 \in SwitchCaseKinds, c2 \in SwitchCaseKinds, c3 \in SwitchCaseKinds}

SwitchProgram(d) ==
    Program(
        BlockStatement(<<
            SwitchStatement(
                Literal(Number(d.disc), "D"),
                [i \in 1..Len(d.cases) |->
                    SwitchCase(d.cases[i].test # 0,
                               IF d.cases[i].test # 0 THEN Literal(Number(d.cases[i].test), "T" \o usize_to_string(i)) ELSE NoExpr,
                               <<Leaf(d.cases[i].body, "S" \o usize_to_string(i))>>)],
                "switch")>>, <<>>),
        <<>>)

SwitchPrograms ==
    {[family |-> "Switch", disc |-> v, cases |-> cs] : v \in {1, 3}, cs \in SwitchCaseLists}

\* [L:] for (i = 0; i < <limit>; i++) if (i === <at>) <leaf> else <other>
\* with the test and the update optional
ForBody(d) ==
    IfStatement(
        BinaryExpression(Identifier("i", "B.l"), "EqEqEq", Literal(Number(d.at), "B.r"), "B.e"),
        Leaf(d.leaf, "X"), TRUE, Leaf(d.other, "Y"), "B")

ForLoop(d) ==
    ForStatement(
        ExpressionStatement(AssignmentExpression(Identifier("i", "I.l"), "", Literal(Number(0), "I.r"), "I.e"), "I"),
        d.has_test,
        IF d.has_test
        THEN BinaryExpression(Identifier("i", "T.l"), "Less", Literal(Number(d.limit), "T.r"), "T")
        ELSE NoExpr,
        d.has_update,
        IF d.has_update THEN UpdateExpression("Increment", FALSE, Identifier("i", "U.a"), "U") ELSE NoExpr,
        ForBody(d),
        "for")

ForProgram(d) ==
    Program(
        BlockStatement(<<IF d.labeled THEN LabelStatement("L", ForLoop(d), "label") ELSE ForLoop(d)>>, <<>>),
        <<"i">>)

ForLeaves == {"normal", "continue", "break", "throw_e", "return", "break_L", "continue_L"}
LabelLeaves == ForLeaves \cup {"break_M", "continue_M"}
\* the leaves after which the loop goes on with its update
ForGoesOn(d, kind) == kind \in {"normal", "continue"} \/ (d.labeled /\ kind = "continue_L")

\* the loops that end: i has to move, and an endless test needs a leaf that leaves the loop
ForTerminates(d) ==
    /\ d.has_update \/ (d.has_test /\ d.limit = 0) \/ (d.at = 0 /\ ~ForGoesOn(d, d.leaf))
    /\ d.has_test \/ ~ForGoesOn(d, d.leaf)

ForPrograms ==
    {[family |-> "For", labeled |-> FALSE, has_test |-> t, limit |-> n, has_update |-> u,
      at |-> k, leaf |-> l, other |-> o] :
        t \in BOOLEAN, n \in 0..MaxLoop, u \in BOOLEAN, k \in 0..MaxLoop,
        l \in ForLeaves, o \in {"normal", "continue"}}

LabelPrograms ==
    {[family |-> "Label", labeled |-> TRUE, has_test |-> t, limit |-> n, has_update |-> u,
      at |-> k, leaf |-> l, other |-> o] :
        t \in BOOLEAN, n \in 0..MaxLoop, u \in BOOLEAN, k \in 0..MaxLoop,
        l \in LabelLeaves, o \in {"normal", "continue_L"}}

\* L: { <leaf> }
LabelBlockProgram(d) ==
    Program(
        BlockStatement(<<
            LabelStatement("L", BlockStmt(BlockStatement(<<Leaf(d.leaf, "X")>>, <<>>), "B"), "label")>>, <<>>),
        <<>>)

LabelBlockPrograms == {[family |-> "LabelBlock", leaf |-> l] : l \in LabelLeaves}

\* var o, s, k, gone; s = ""; gone = 0; Object.prototype.<proto_key> = 9;
\* o = {<keys>: 1} or o = [5, ...], o.<keys> = 1;
\* for (var k in o) { if (typeof o[k] === "undefined") gone++; s += k; <effect> } s
Id(name) == Identifier(name, "")
Dot(obj, name) == MemberExpression(obj, Id(name), FALSE, "")
Assign(target, op, value, loc) == ExpressionStatement(AssignmentExpression(target, op, value, ""), loc)

ForInEffect(kind) ==
    CASE kind = "none" -> EmptyStatement("E")
      [] kind = "delete_y" -> ExpressionStatement(UnaryExpression("Delete", Dot(Id("o"), "y"), ""), "E")
      [] kind = "pop" -> ExpressionStatement(CallExpression(Dot(Id("o"), "pop"), <<>>, ""), "E")
      [] kind = "break" -> BreakStatement("", "E")
      [] kind = "continue" -> ContinueStatement("", "E")

ForInBody ==
    IfStatement(
        BinaryExpression(
            UnaryExpression("Typeof", MemberExpression(Id("o"), Id("k"), TRUE, ""), ""),
            "EqEqEq", Literal(String("undefined"), ""), ""),
        ExpressionStatement(UpdateExpression("Increment", FALSE, Id("gone"), ""), "G"),
        FALSE, EmptyStatement(""), "B")

ForInIteratee(d) ==
    IF d.is_array
    THEN <<Assign(Id("o"), "", ArrayExpression([i \in 1..d.len |-> Literal(Number(4 + i), "")], ""), "O")>>
         \o [i \in 1..Len(d.keys) |-> Assign(Dot(Id("o"), d.keys[i]), "", Literal(Number(1), ""), "P")]
    ELSE <<Assign(Id("o"), "",
                  ObjectExpression([i \in 1..Len(d.keys) |-> ObjectProperty(Id(d.keys[i]), FALSE, Literal(Number(i), ""))], ""), "O")>>

ForInProgram(d) ==
    Program(
        BlockStatement(
            <<Assign(Id("s"), "", Literal(String(""), ""), "S"),
              Assign(Id("gone"), "", Literal(Number(0), ""), "S")>>
            \o (IF d.proto_key = "" THEN <<>>
                ELSE <<Assign(Dot(Dot(Id("Object"), "prototype"), d.proto_key), "", Literal(Number(9), ""), "S")>>)
            \o ForInIteratee(d)
            \o <<ForInStatement(
                    ForInTargetVar(VariableDeclaration(<<VariableDeclarator("k", FALSE, NoExpr)>>, "")),
                    Id("o"),
                    BlockStmt(BlockStatement(
                        <<ForInBody, Assign(Id("s"), "Plus", Id("k"), "V"), ForInEffect(d.effect)>>, <<>>), ""),
                    "forin"),
                 ExpressionStatement(Id("s"), "R")>>,
            <<>>),
        <<"o", "s", "k", "gone">>)

ForInKeyLists == {<<>>, <<"x">>, <<"x", "y">>, <<"y", "x">>}
ForInPrograms ==
    {[family |-> "ForIn", is_array |-> a, len |-> n, keys |-> ks, proto_key |-> pk, effect |-> e] :
        a \in BOOLEAN, n \in 0..MaxArrayLen, ks \in ForInKeyLists,
        pk \in {"", "x", "z", "pop"}, e \in {"none", "delete_y", "pop", "break", "continue"}}

\* the keys the hasher orders, and its possible orders
HashedKeys == {"x", "y"} \cup {usize_to_string(i) : i \in 0..(MaxArrayLen - 1)}
HasherOrders ==
    {q \in [1..Cardinality(HashedKeys) -> HashedKeys] : \A i, j \in DOMAIN q : i # j => q[i] # q[j]}

\* `var <name> = <init>` bound at the level of the program or of its body block,
\* then `<name> + <add>` as a second program on the same heap
DeclProgram(d) ==
    Program(
        BlockStatement(
            <<VariableDeclaration(<<VariableDeclarator(d.name, TRUE, Literal(Number(d.init), "V.i"))>>, "V")>>,
            IF d.level = "block" THEN <<d.name>> ELSE <<>>),
        IF d.level = "program" THEN <<d.name>> ELSE <<>>)

UseProgram(d) ==
    Program(
        BlockStatement(
            <<ExpressionStatement(
                BinaryExpression(Identifier(d.name, "U.l"), "Plus", Literal(Number(d.add), "U.r"), "U.e"), "U")>>,
            <<>>),
        <<>>)

DeclPrograms ==
    {[family |-> "Decl", name |-> n, init |-> v, level |-> l] :
        n \in {"x", "y"}, v \in {0, 5, 7, 12}, l \in {"program", "block"}}
UsePrograms(first) ==
    {[family |-> "Use", name |-> n, add |-> a, first |-> first] : n \in {"x", "y"}, a \in {0, 1, 4, 8}}

\* <write to target>; <target>   where the host has bound `ro` read-only and
\* `rw` writable in the global object, both holding 1
ReadonlySites == {"assign", "assign_plus", "increment", "decrement_post", "var", "forin", "forin_var"}

ReadonlyWrite(d) ==
    CASE d.site = "assign" -> Assign(Id(d.target), "", Literal(Number(d.value), ""), "W")
      [] d.site = "assign_plus" -> Assign(Id(d.target), "Plus", Literal(Number(d.value), ""), "W")
      [] d.site = "increment" ->
            ExpressionStatement(UpdateExpression("Increment", TRUE, Id(d.target), ""), "W")
      [] d.site = "decrement_post" ->
            ExpressionStatement(UpdateExpression("Decrement", FALSE, Id(d.target), ""), "W")
      [] d.site = "var" ->
            VariableDeclaration(<<VariableDeclarator(d.target, TRUE, Literal(Number(d.value), ""))>>, "W")
      [] d.site = "forin" ->
            ForInStatement(ForInTargetExpr(Id(d.target)),
                           ObjectExpression(<<ObjectProperty(Id("x"), FALSE, Literal(Number(d.value), ""))>>, ""),
                           EmptyStatement("B"), "W")
      [] d.site = "forin_var" ->
            ForInStatement(ForInTargetVar(VariableDeclaration(<<VariableDeclarator(d.target, FALSE, NoExpr)>>, "")),
                           ObjectExpression(<<ObjectProperty(Id("x"), FALSE, Literal(Number(d.value), ""))>>, ""),
                           EmptyStatement("B"), "W")

ReadonlyProgram(d) ==
    Program(
        BlockStatement(<<ReadonlyWrite(d), ExpressionStatement(Id(d.target), "N")>>, <<>>),
        IF d.site \in {"var", "forin_var"} THEN <<d.target>> ELSE <<>>)

ReadonlyPrograms ==
    {[family |-> "Readonly", site |-> s, target |-> t, value |-> v] :
        s \in ReadonlySites, t \in {"ro", "rw"}, v \in {5, 7}}

\* the heap after the host has bound its two globals
HostGlobals(h) ==
    [h EXCEPT !.objs[GLOBAL] =
        JSObject_define(JSObject_define(@, "ro", Number(1), {ENUM, CONF}), "rw", Number(1), Access_all)]

\* one binary, array, object or sequence expression whose sub-expressions are
\* tagged E1, E2, ... in source order; a sub-expression either completes (a
\* literal) or fails (a property of the undefined `u`)
OrderArity(kind) == IF kind = "binary" THEN 2 ELSE IF kind = "object" THEN 4 ELSE 3

OrderSub(d, i) ==
    IF d.subs[i] = "ok"
    THEN Literal(Number(i), "E" \o usize_to_string(i))
    ELSE MemberExpression(Id("u"), Id("p"), FALSE, "E" \o usize_to_string(i))

OrderExpression(d) ==
    CASE d.kind = "binary" -> BinaryExpression(OrderSub(d, 1), "Plus", OrderSub(d, 2), "X")
      [] d.kind = "array" -> ArrayExpression(<<OrderSub(d, 1), OrderSub(d, 2), OrderSub(d, 3)>>, "X")
      [] d.kind = "object" ->
            ObjectExpression(<<ObjectProperty(OrderSub(d, 1), TRUE, OrderSub(d, 2)),
                               ObjectProperty(OrderSub(d, 3), TRUE, OrderSub(d, 4))>>, "X")
      [] d.kind = "sequence" -> SequenceExpression(<<OrderSub(d, 1), OrderSub(d, 2), OrderSub(d, 3)>>, "X")

OrderProgram(d) ==
    Program(BlockStatement(<<ExpressionStatement(OrderExpression(d), "S")>>, <<>>), <<"u">>)

OrderPrograms ==
    {[family |-> "Order", kind |-> k, subs |-> s] :
        k \in {"binary", "array", "object", "sequence"}, s \in [1..4 -> {"ok", "fail"}]}

\* x = <x0>; k = "p"; o = {}; r = (<target> <op>= <value>); r
\* the target is `x` or `o[k = "q"]`, the value a literal, `k` or `(x = 5)`
AssignTarget(d) ==
    IF d.target = "x" THEN Identifier("x", "L")
    ELSE MemberExpression(Id("o"), AssignmentExpression(Id("k"), "", Literal(String("q"), ""), ""), TRUE, "L")

AssignValue(d) ==
    CASE d.value = "lit" -> Literal(Number(d.lit), "R")
      [] d.value = "k" -> Identifier("k", "R")
      [] d.value = "assign_x" -> AssignmentExpression(Id("x"), "", Literal(Number(5), ""), "R")

AssignProgram(d) ==
    Program(
        BlockStatement(
            <<Assign(Id("x"), "", Literal(Number(d.x0), ""), "S"),
              Assign(Id("k"), "", Literal(String("p"), ""), "S"),
              Assign(Id("o"), "", ObjectExpression(<<>>, ""), "S"),
              Assign(Id("r"), "", AssignmentExpression(AssignTarget(d), d.op, AssignValue(d), "A"), "S"),
              ExpressionStatement(Id("r"), "S")>>,
            <<>>),
        <<"x", "k", "o", "r">>)

AssignPrograms ==
    {[family |-> "Assign", target |-> t, op |-> o, value |-> v, lit |-> l, x0 |-> x] :
        t \in {"x", "o_k"}, o \in {"", "Plus", "Minus"}, v \in {"lit", "k", "assign_x"},
        l \in {3, 4}, x \in {1, 2}}

\* a call or new expression with two arguments tagged A1, A2 and a callee
\* tagged C; an argument completes (a literal) or fails (a property of the
\* undefined `u`); the callee is the host function F, the number `x`, or fails
CallArg(d, i) ==
    IF d.args[i] = "ok"
    THEN Literal(Number(i), "A" \o usize_to_string(i))
    ELSE MemberExpression(Id("u"), Id("p"), FALSE, "A" \o usize_to_string(i))

CallCallee(d) ==
    CASE d.callee = "F" -> Identifier("F", "C")
      [] d.callee = "number" -> Identifier("x", "C")
      [] d.callee = "fail" -> MemberExpression(Id("u"), Id("p"), FALSE, "C")

CallProgram(d) ==
    Program(
        BlockStatement(
            <<Assign(Id("x"), "", Literal(Number(1), ""), "S"),
              Assign(Id("r"), "",
                     IF d.form = "new"
                     THEN NewExpression(CallCallee(d), <<CallArg(d, 1), CallArg(d, 2)>>, "N")
                     ELSE CallExpression(CallCallee(d), <<CallArg(d, 1), CallArg(d, 2)>>, "N"),
                     "S"),
              ExpressionStatement(Id("r"), "S")>>,
            <<>>),
        <<"x", "r">>)

CallPrograms ==
    {[family |-> "Call", form |-> f, args |-> a, callee |-> c, returns |-> r, prototype |-> p] :
        f \in {"call", "new"}, a \in [1..2 -> {"ok", "fail"}], c \in {"F", "number", "fail"},
        r \in {"undefined", "number", "null", "object", "this"}, p \in {"own", "none", "inherited"}}

\* the globals the embedder defines before the program runs: the host function
\* F, which has its own `prototype` object, none, or only an inherited one
\* (its proto is then the Object constructor), and the counter `calls`
HostFunctions(h, d) ==
    Let(Heap_alloc_ref(h), LAMBDA P :
    Let(Heap_alloc(h, JSObject_new), LAMBDA h1 :
    Let(JSObject_from_hostfn("probe_" \o d.returns), LAMBDA f :
    Let(Heap_alloc(h1, CASE d.prototype = "own" -> JSObject_define(f, "prototype", Ref(P), {WRITE})
                         [] d.prototype = "inherited" -> [f EXCEPT !.proto = OBJECT_CTOR]
                         [] d.prototype = "none" -> f), LAMBDA h2 :
    [h2 EXCEPT !.objs[GLOBAL] =
        JSObject_define(JSObject_define(@, "F", Ref(Heap_alloc_ref(h1)), Access_all),
                        "calls", Number(0), Access_all)]))))

\* `p = <parent>; o = <base>; o.__proto__ = p; q = o.__proto__; r = o.y`, the
\* assignment to `__proto__` present when d.op is "write"
ProtoObject(kind) ==
    IF kind = "array" THEN ArrayExpression(<<>>, "")
    ELSE ObjectExpression(<<ObjectProperty(Id("y"), FALSE, Literal(Number(2), ""))>>, "")

ProtoProgram(d) ==
    Program(
        BlockStatement(
            <<Assign(Id("p"), "", ProtoObject(d.parent), "S"),
              Assign(Id("o"), "", IF d.base = "array" THEN ArrayExpression(<<>>, "")
                                  ELSE ObjectExpression(<<>>, ""), "S")>>
            \o (IF d.op = "write" THEN <<Assign(Dot(Id("o"), "__proto__"), "", Id("p"), "W")>> ELSE <<>>)
            \o <<Assign(Id("q"), "", Dot(Id("o"), "__proto__"), "S"),
                 Assign(Id("r"), "", Dot(Id("o"), "y"), "S"),
                 ExpressionStatement(Id("r"), "S")>>,
            <<>>),
        <<"p", "o", "q", "r">>)

ProtoPrograms ==
    {[family |-> "Proto", op |-> op, base |-> b, parent |-> p] :
        op \in {"read", "write"}, b \in {"object", "array"}, p \in {"object", "array"}}

\* `r = a <op> b` for a shift operator and two globals holding 32-bit integers
ShiftProgram(d) ==
    Program(
        BlockStatement(
            <<Assign(Id("r"), "", BinaryExpression(Id("a"), d.op, Id("b"), "B"), "S"),
              ExpressionStatement(Id("r"), "S")>>,
            <<>>),
        <<"r">>)

ShiftLefts == {i32_MIN, -256, -8, -1, 0, 1, 5, 256, 2^30, i32_MAX}
ShiftCounts == {-1, 0, 1, 4, 5, 31, 32, 33}

ShiftPrograms ==
    {[family |-> "Shift", op |-> op, a |-> a, b |-> b, overflow_checks |-> c] :
        op \in {"LtLt", "GtGt", "GtGtGt"}, a \in ShiftLefts, b \in ShiftCounts, c \in BOOLEAN}

\* the globals `a` and `b` the embedder defines, and the build of the interpreter
HostNumbers(h, d) ==
    [h EXCEPT !.overflow_checks = d.overflow_checks,
              !.objs[GLOBAL] = JSObject_define(JSObject_define(@, "a", Number(d.a), Access_all),
                                               "b", Number(d.b), Access_all)]

\* two try statements in a row, each raising an error of its own kind and
\* catching it: `try { <raise> } catch (x) { m = x.message; e = x }`
CatchRaise(kind) ==
    CASE kind = "type_error" -> ExpressionStatement(Dot(Id("u"), "p"), "R")
      [] kind = "not_callable" -> ExpressionStatement(CallExpression(Id("one"), <<>>, ""), "R")
      [] kind = "reference" -> ExpressionStatement(Id("nope"), "R")
      [] kind = "thrown" ->
            ThrowStatement(
                ObjectExpression(<<ObjectProperty(Id("message"), FALSE, Literal(String("mine"), ""))>>, ""), "R")

CatchTry(kind, m, e) ==
    TryStatement(
        BlockStatement(<<CatchRaise(kind)>>, <<>>),
        TRUE,
        CatchClause("x", BlockStatement(<<Assign(Id(m), "", Dot(Id("x"), "message"), "H"),
                                          Assign(Id(e), "", Id("x"), "H")>>, <<>>)),
        FALSE,
        BlockStatement(<<>>, <<>>),
        "try")

CatchProgram(d) ==
    Program(
        BlockStatement(
            <<Assign(Id("one"), "", Literal(Number(1), ""), "S"),
              CatchTry(d.first, "m1", "e1"),
              CatchTry(d.second, "m2", "e2"),
              ExpressionStatement(Id("m1"), "S")>>,
            <<>>),
        <<"u", "one", "m1", "e1", "m2", "e2">>)

CatchKinds == {"type_error", "not_callable", "reference", "thrown"}
CatchPrograms == {[family |-> "Catch", first |-> a, second |-> b] : a \in CatchKinds, b \in CatchKinds}

\* var f, g, o, s, k, r; s = ""; f = function () {}; g = function ... ; r = g(5);
\* [f.prototype.m = 1;] o = new f(); for (k in <f.prototype or o>) s += k; s
\* where each function expression stands at the top of the program or in a block
FuncAt(stmt, in_block) == IF in_block THEN BlockStmt(BlockStatement(<<stmt>>, <<>>), "B") ELSE stmt

FuncProgram(d) ==
    Program(
        BlockStatement(
            <<Assign(Id("s"), "", Literal(String(""), ""), "S"),
              FuncAt(Assign(Id("f"), "", FunctionExpression("F", "F1"), "S"), d.first_in_block),
              FuncAt(Assign(Id("g"), "", FunctionExpression(d.second, "F2"), "S"), d.second_in_block),
              Assign(Id("r"), "", CallExpression(Id("g"), <<Literal(Number(5), "")>>, ""), "S")>>
            \o (IF d.own THEN <<Assign(Dot(Dot(Id("f"), "prototype"), "m"), "", Literal(Number(1), ""), "S")>>
                ELSE <<>>)
            \o <<Assign(Id("o"), "", NewExpression(Id("f"), <<>>, "new"), "S"),
                 ForInStatement(
                    ForInTargetExpr(Id("k")),
                    IF d.iterate = "prototype" THEN Dot(Id("f"), "prototype") ELSE Id("o"),
                    Assign(Id("s"), "Plus", Id("k"), "V"),
                    "forin"),
                 ExpressionStatement(Id("s"), "R")>>,
            <<>>),
        <<"f", "g", "o", "s", "k", "r">>)

FuncPrograms ==
    {[family |-> "Func", first_in_block |-> a, second_in_block |-> b, second |-> g, own |-> m, iterate |-> i] :
        a \in BOOLEAN, b \in BOOLEAN, g \in {"F", "A"}, m \in BOOLEAN, i \in {"prototype", "instance"}}

\* `var s = "", a, b, c`, then one declaration `a = (s += "a"), b, c = (s += "c")`
\* (or in the opposite order) at the top level or inside a block that has
\* bindings of its own, followed by a statement
VarOrder(d) == IF d.reversed THEN <<"c", "b", "a">> ELSE <<"a", "b", "c">>

VarDeclarator(name) ==
    IF name = "b" THEN VariableDeclarator(name, FALSE, NoExpr)
    ELSE VariableDeclarator(name, TRUE, AssignmentExpression(Id("s"), "Plus", Literal(String(name), ""), ""))

VarDeclaration(d) ==
    <<VariableDeclaration([i \in 1..3 |-> VarDeclarator(VarOrder(d)[i])], "decl"),
      ExpressionStatement(Literal(Number(0), ""), "after")>>

VarProgram(d) ==
    Program(
        BlockStatement(
            <<Assign(Id("s"), "", Literal(String(""), ""), "S")>>
            \o (IF d.preset
                THEN [i \in 1..3 |-> Assign(Id(VarOrder(d)[i]), "", Literal(String("o"), ""), "S")]
                ELSE <<>>)
            \o (IF d.in_block THEN <<BlockStmt(BlockStatement(VarDeclaration(d), d.bindings), "B")>>
                ELSE VarDeclaration(d))
            \o <<ExpressionStatement(Id("s"), "R")>>,
            <<>>),
        <<"s", "a", "b", "c">>)

VarPrograms ==
    {[family |-> "Var", in_block |-> blk, bindings |-> bs, preset |-> p, reversed |-> r] :
        blk \in BOOLEAN, bs \in {<<>>, <<"a">>, <<"b">>, <<"a", "b", "c">>}, p \in BOOLEAN, r \in BOOLEAN}

\* a block of up to MaxSeqLen statements, the i-th one tagged with the digit
\* i: `t = i`, `;`, `var v = i` or `throw i`.  The block is the program or
\* the last statement of the program.
MaxSeqLen == 3
SeqKinds == {"expr", "empty", "decl", "throw"}
SeqTag(i) == Digits[i + 1]

SeqStatement(kind, i) ==
    CASE kind = "expr" -> Assign(Id("t"), "", Literal(Number(i), ""), SeqTag(i))
      [] kind = "empty" -> EmptyStatement(SeqTag(i))
      [] kind = "decl" -> VariableDeclaration(<<VariableDeclarator("v", TRUE, Literal(Number(i), ""))>>, SeqTag(i))
      [] kind = "throw" -> ThrowStatement(Literal(Number(i), ""), SeqTag(i))

SeqBlock(d) == BlockStatement([i \in 1..Len(d.kinds) |-> SeqStatement(d.kinds[i], i)], <<>>)

SeqProgram(d) ==
    Program(
        IF d.nested
        THEN BlockStatement(<<ExpressionStatement(Literal(Number(9), ""), "S"), BlockStmt(SeqBlock(d), "B")>>, <<>>)
        ELSE SeqBlock(d),
        <<"t", "v">>)

SeqPrograms ==
    {[family |-> "Seq", kinds |-> ks, nested |-> n] :
        ks \in UNION {[1..len -> SeqKinds] : len \in 0..MaxSeqLen}, n \in BOOLEAN}

\* `n = 1; s = "a"; b = true; o = {}`, then `t = typeof <operand>` at the top
\* level or inside a block, then `t`
TypeofOperand(kind) ==
    CASE kind = "unresolved" -> Id("nope")
      [] kind = "undefined" -> Id("u")
      [] kind = "number" -> Id("n")
      [] kind = "string" -> Id("s")
      [] kind = "boolean" -> Id("b")
      [] kind = "object" -> Id("o")
      [] kind = "literal" -> Literal(Number(1), "")
      [] kind = "member" -> MemberExpression(Id("o"), Literal(String("n"), ""), TRUE, "")
      [] kind = "missing_member" -> Dot(Id("o"), "x")
      [] kind = "member_of_undefined" -> Dot(Id("u"), "x")
      [] kind = "member_of_unresolved" -> Dot(Id("nope"), "x")

TypeofAt(stmt, in_block) == IF in_block THEN BlockStmt(BlockStatement(<<stmt>>, <<"w">>), "B") ELSE stmt

TypeofProgram(d) ==
    Program(
        BlockStatement(
            <<Assign(Id("n"), "", Literal(Number(1), ""), "S"),
              Assign(Id("s"), "", Literal(String("a"), ""), "S"),
              Assign(Id("b"), "", Literal(Bool(TRUE), ""), "S"),
              Assign(Id("o"), "",
                     ObjectExpression(<<ObjectProperty(Id("n"), FALSE, Literal(String("in"), ""))>>, ""), "S"),
              TypeofAt(Assign(Id("t"), "", UnaryExpression("Typeof", TypeofOperand(d.operand), ""), "T"), d.in_block),
              ExpressionStatement(Id("t"), "R")>>,
            <<>>),
        <<"u", "n", "s", "b", "o", "t">>)

TypeofKinds ==
    {"unresolved", "undefined", "number", "string", "boolean", "object", "literal", "member",
     "missing_member", "member_of_undefined", "member_of_unresolved"}
TypeofPrograms == {[family |-> "Typeof", operand |-> k, in_block |-> blk] : k \in TypeofKinds, blk \in BOOLEAN}

\* `n = 0; o = {}`, then `<base>[<prop>] = 7` or `r = <base>[<prop>]`, then `n`;
\* the base is `u` (undefined) or `o`, the property `n = 1`, "k" or 2
MemberBase(kind) == Identifier(IF kind = "undefined" THEN "u" ELSE "o", "obj")

MemberProp(kind) ==
    CASE kind = "assign" -> AssignmentExpression(Id("n"), "", Literal(Number(1), ""), "prop")
      [] kind = "string" -> Literal(String("k"), "prop")
      [] kind = "number" -> Literal(Number(2), "prop")

MemberAccess(d) == MemberExpression(MemberBase(d.base), MemberProp(d.prop), TRUE, "")

MemberProgram(d) ==
    Program(
        BlockStatement(
            <<Assign(Id("n"), "", Literal(Number(0), ""), "S"),
              Assign(Id("o"), "", ObjectExpression(<<>>, ""), "S"),
              IF d.write THEN Assign(MemberAccess(d), "", Literal(Number(7), ""), "M")
              ELSE Assign(Id("r"), "", MemberAccess(d), "M"),
              ExpressionStatement(Id("n"), "R")>>,
            <<>>),
        <<"u", "o", "n", "r">>)

MemberPrograms ==
    {[family |-> "Member", base |-> b, prop |-> p, write |-> w] :
        b \in {"undefined", "object"}, p \in {"assign", "string", "number"}, w \in BOOLEAN}

(***************************************************************************)
(* The state machine: a heap is created, then one program is evaluated on  *)
(* it.  `result` keeps the JSResult of the evaluation.                     *)
(***************************************************************************)
NoProgram == [family |-> "None"]
NoResult == [ok |-> TRUE, val |-> VOID, exc |-> NoExc]

Init ==
    /\ heap = Heap_new(<<>>)
    /\ program = NoProgram
    /\ result = NoResult
    /\ phase = "idle"

\* heap.evaluate(&program), as src/wasm/src/lib.rs calls it
Evaluate(d, ast, h) ==
    Let(Heap_evaluate(ast, h), LAMBDA r :
    /\ phase = "idle"
    /\ heap' = r.h
    /\ program' = d
    /\ result' = [ok |-> r.ok, val |-> r.val, exc |-> r.exc]
    /\ phase' = "done")

EvaluateTry ==
    \E d \in TryPrograms :
        /\ d.has_handler \/ d.handler = "normal"
        /\ d.has_finalizer \/ d.finalizer = "normal"
        /\ Evaluate(d, TryProgram(d), heap)

EvaluateSwitch ==
    \E d \in SwitchPrograms :
        /\ Cardinality({i \in 1..Len(d.cases) : d.cases[i].test = 0}) <= 1
        /\ Evaluate(d, SwitchProgram(d), heap)

EvaluateFor ==
    \E d \in ForPrograms :
        /\ ForTerminates(d)
        /\ Evaluate(d, ForProgram(d), heap)

EvaluateLabel ==
    \/ \E d \in LabelPrograms :
        /\ ForTerminates(d)
        /\ Evaluate(d, ForProgram(d), heap)
    \/ \E d \in LabelBlockPrograms : Evaluate(d, LabelBlockProgram(d), heap)

Next ==
    \/ EvaluateTry
    \/ EvaluateSwitch
    \/ EvaluateFor
    \/ EvaluateLabel

Spec == Init /\ [][Next]_vars

\* a for-in loop over a fresh heap; the order in which a HashSet hands out its
\* keys is fixed by its hasher and not by the program
EvaluateForIn ==
    \E d \in {p \in ForInPrograms : (p.is_array \/ p.len = 0)
                                   /\ (p.effect = "pop" => p.is_array)
                                   /\ (p.effect = "delete_y" => ~p.is_array)},
       hasher \in HasherOrders :
        Evaluate(d, ForInProgram(d), [heap EXCEPT !.hasher = hasher])

NextForIn ==
    \/ EvaluateForIn

SpecForIn == Init /\ [][NextForIn]_vars

\* two calls of `interpret` on the one heap of the thread
EvaluateDecl ==
    \E d \in DeclPrograms : Evaluate(d, DeclProgram(d), heap)

EvaluateUse ==
    /\ phase = "done"
    /\ program.family = "Decl"
    /\ \E d \in UsePrograms(program) :
        Let(Heap_evaluate(UseProgram(d), heap), LAMBDA r :
        /\ heap' = r.h
        /\ program' = d
        /\ result' = [ok |-> r.ok, val |-> r.val, exc |-> r.exc]
        /\ phase' = "again")

NextSession ==
    \/ EvaluateDecl
    \/ EvaluateUse

SpecSession == Init /\ [][NextSession]_vars

EvaluateReadonly ==
    \E d \in ReadonlyPrograms : Evaluate(d, ReadonlyProgram(d), HostGlobals(heap))

EvaluateOrder ==
    \E d \in OrderPrograms :
        /\ \A i \in (OrderArity(d.kind) + 1)..4 : d.subs[i] = "ok"
        /\ Evaluate(d, OrderProgram(d), heap)

EvaluateAssign ==
    \E d \in AssignPrograms :
        /\ d.value = "lit" \/ d.lit = 3
        /\ d.target = "o_k" => d.op = ""
        /\ d.value = "k" => d.op # "Minus"
        /\ Evaluate(d, AssignProgram(d), heap)

EvaluateCall ==
    \E d \in CallPrograms :
        /\ d.callee = "F" \/ (d.returns = "undefined" /\ d.prototype = "own")
        /\ Evaluate(d, CallProgram(d), HostFunctions(heap, d))

EvaluateProto ==
    \E d \in ProtoPrograms : Evaluate(d, ProtoProgram(d), heap)

EvaluateShift ==
    \E d \in ShiftPrograms :
        /\ d.overflow_checks \/ (d.op = "GtGtGt" /\ d.b >= 32)
        /\ Evaluate(d, ShiftProgram(d), HostNumbers(heap, d))

EvaluateCatch ==
    \E d \in CatchPrograms : Evaluate(d, CatchProgram(d), heap)

EvaluateFunc ==
    \E d \in FuncPrograms : Evaluate(d, FuncProgram(d), heap)

EvaluateVar ==
    \E d \in {p \in VarPrograms : p.in_block \/ p.bindings = <<>>} : Evaluate(d, VarProgram(d), heap)

EvaluateSeq ==
    \E d \in SeqPrograms : Evaluate(d, SeqProgram(d), heap)

EvaluateTypeof ==
    \E d \in TypeofPrograms : Evaluate(d, TypeofProgram(d), heap)

EvaluateMember ==
    \E d \in MemberPrograms : Evaluate(d, MemberProgram(d), heap)

NextExpr ==
    \/ EvaluateCatch
    \/ EvaluateShift
    \/ EvaluateProto
    \/ EvaluateCall
    \/ EvaluateReadonly
    \/ EvaluateAssign
    \/ EvaluateOrder

SpecExpr == Init /\ [][NextExpr]_vars

\* a heap on which a program of functions, declarations, blocks, `typeof` or
\* computed members is evaluated
NextStmt ==
    \/ EvaluateFunc
    \/ EvaluateVar
    \/ EvaluateSeq
    \/ EvaluateTypeof
    \/ EvaluateMember

SpecStmt == Init /\ [][NextStmt]_vars

(***************************************************************************)
(* Properties.                                                             *)
(***************************************************************************)
Done(family) == phase = "done" /\ program.family = family

\* the locations the evaluation went through, in order
Locs == [i \in 1..Len(heap.trace) |-> heap.trace[i].loc]
Count(q, x) == Cardinality({i \in 1..Len(q) : q[i] = x})
FirstAt(q, x) == CHOOSE i \in 1..Len(q) : q[i] = x /\ \A j \in 1..(i - 1) : q[j] # x
\* the scope that was current when the node at `loc` was first entered
ScopeAt(loc) == heap.trace[FirstAt(Locs, loc)].scope

\* the outcome of a leaf statement, as the language defines it
Completes(v) == [ok |-> TRUE, val |-> Value(v), exc |-> NoExc]
Fails(e) == [ok |-> FALSE, val |-> VOID, exc |-> e]
LeafOutcome(kind) ==
    CASE kind = "normal" -> Completes(Number(1))
      [] kind = "throw_e" -> Fails(UserThrown(String("e")))
      [] kind = "throw_7" -> Fails(UserThrown(Number(7)))
      [] kind = "type_error" -> Fails(TypeError("not an object"))
      [] kind = "return" -> Fails(JumpReturn(Value(Number(7))))
      [] kind = "break" -> Fails(JumpBreak(""))
      [] kind = "continue" -> Fails(JumpContinue(""))
      [] kind = "break_L" -> Fails(JumpBreak("L"))
      [] kind = "continue_L" -> Fails(JumpContinue("L"))
      [] kind = "break_M" -> Fails(JumpBreak("M"))
      [] kind = "continue_M" -> Fails(JumpContinue("M"))

\* the value `throw` raised in the block of the program
Thrown(d) == IF d.block = "throw_e" THEN String("e") ELSE Number(7)

\* what the handler body of the program yields once the parameter is bound to v
HandlerOutcome(d, v) ==
    CASE d.handler = "param" -> Completes(v)
      [] d.handler = "param_bang" -> Completes(String(JSValue_stringify(v) \o "!"))
      [] OTHER -> LeafOutcome(d.handler)

\* C1: a try statement with a finalizer interprets the finalizer exactly once,
\* whatever way the block and the handler are left.
C1_FinalizerOnce ==
    (Done("Try") /\ program.has_finalizer) => Count(Locs, "F") = 1

C1_Witness ==
    /\ Done("Try") /\ program.has_finalizer
    /\ program.block = "throw_e" /\ program.has_handler /\ program.handler = "break_L"
    /\ Count(Locs, "H") = 1 /\ Count(Locs, "F") = 1

\* what is pending when the finalizer starts: the outcome of the block, or of
\* the handler when the block threw and a handler exists
Pending(d) ==
    IF d.block \in ThrowKinds /\ d.has_handler
    THEN HandlerOutcome(d, Thrown(d))
    ELSE LeafOutcome(d.block)

\* C2: a failing finalizer replaces the pending outcome by its own failure;
\* a finalizer that completes leaves the pending outcome as it is.
C2_FinalizerSupersedes ==
    (Done("Try") /\ program.has_finalizer) =>
        /\ program.finalizer # "normal" => result = LeafOutcome(program.finalizer)
        /\ (/\ program.finalizer = "normal"
            /\ ~(program.block = "type_error" /\ program.has_handler /\ program.handler \in {"param", "param_bang"}))
           => result = Pending(program)

C2_Witness ==
    /\ Done("Try") /\ program.has_finalizer
    /\ program.block = "throw_e" /\ ~program.has_handler /\ program.finalizer = "break"
    /\ result = Fails(JumpBreak(""))

\* C3: a jump raised in the block of a try statement never reaches the catch
\* clause: the handler body does not run, CatchClause::interpret does not panic,
\* the finalizer runs after the block and the jump leaves the try statement.
C3_JumpNotCaught ==
    (Done("Try") /\ program.block \in JumpKinds) =>
        /\ Count(Locs, "H") = 0
        /\ result.exc.x # "Panic"
        /\ program.has_finalizer => (Count(Locs, "F") = 1 /\ FirstAt(Locs, "B") < FirstAt(Locs, "F"))
        /\ program.finalizer = "normal" => result = LeafOutcome(program.block)

C3_Witness ==
    /\ Done("Try") /\ program.block = "continue_L" /\ program.has_handler /\ program.has_finalizer
    /\ program.finalizer = "normal" /\ result = Fails(JumpContinue("L"))

\* C4: a value v thrown in the block of a try statement with a handler is bound
\* to the catch parameter in a fresh scope, the handler body runs there and its
\* outcome is the outcome of the try statement; afterwards the parameter is not
\* bound in the enclosing scope.
C4_CatchBindsParam ==
    (Done("Try") /\ program.block \in {"throw_e", "throw_7"} /\ program.has_handler) =>
        /\ Count(Locs, "H") = 1
        /\ LET catch_scope == Heap_saved_scope(heap, ScopeAt("H")) IN
           /\ JSObject_get_own_value(Heap_get(heap, catch_scope), "x") = [found |-> TRUE, value |-> Thrown(program)]
           /\ Heap_saved_scope(heap, catch_scope) = ScopeAt("try")
           /\ catch_scope > ScopeAt("B")
        /\ program.finalizer = "normal" => result = HandlerOutcome(program, Thrown(program))
        /\ Heap_lookup_scope(heap, ScopeAt("try"), "x") = NULL
        /\ ~Heap_lookup_var(heap, "x").found

C4_Witness ==
    /\ Done("Try") /\ program.block = "throw_e" /\ program.has_handler /\ program.handler = "param_bang"
    /\ program.has_finalizer /\ program.finalizer = "normal"
    /\ result = Completes(String("e!")) /\ Count(Locs, "F") = 1

\* C5: scope entry and exit are balanced: when an evaluation is over, with a
\* value or with a failure, no scope is current any more, and the handler and
\* the finalizer of a try statement are entered from the scope the try
\* statement was entered in, however the block and the handler were left.
C5_ScopesBalanced ==
    /\ phase = "done" => heap.scope = NULL
    /\ Done("Try") =>
        /\ Count(Locs, "F") > 0 => Heap_saved_scope(heap, ScopeAt("F")) = ScopeAt("try")
        /\ Count(Locs, "H") > 0 => Heap_saved_scope(heap, Heap_saved_scope(heap, ScopeAt("H"))) = ScopeAt("try")

C5_Witness ==
    /\ Done("Try") /\ program.block = "throw_7" /\ program.has_handler /\ program.handler = "return"
    /\ program.has_finalizer /\ ~result.ok /\ heap.scope = NULL
    /\ Heap_saved_scope(heap, ScopeAt("F")) = ScopeAt("try")

\* the locations of `q` that are in `marks`, in order
Markers(q, marks) == SelectSeq(q, LAMBDA l : l \in marks)
Idx(n) == [i \in 1..n |-> i]
Min(S) == CHOOSE x \in S : \A y \in S : x <= y

\* the cases of the switch whose test equals the discriminant, and its default cases
SwitchMatches(d) == {i \in 1..Len(d.cases) : d.cases[i].test = d.disc}
SwitchDefaults(d) == {i \in 1..Len(d.cases) : d.cases[i].test = 0}
\* where execution starts
SwitchStart(d) ==
    IF SwitchMatches(d) # {} THEN Min(SwitchMatches(d))
    ELSE IF SwitchDefaults(d) # {} THEN Min(SwitchDefaults(d))
    ELSE Len(d.cases) + 1
\* the cases from the start on whose statement does not complete
SwitchStops(d) == {i \in SwitchStart(d)..Len(d.cases) : d.cases[i].body # "normal"}
\* the tests that are evaluated and the cases that are executed, in source order
SwitchTested(d) ==
    SelectSeq(Idx(Len(d.cases)), LAMBDA i :
        d.cases[i].test # 0 /\ (SwitchMatches(d) = {} \/ i <= Min(SwitchMatches(d))))
SwitchExecuted(d) ==
    SelectSeq(Idx(Len(d.cases)), LAMBDA i :
        i >= SwitchStart(d) /\ (SwitchStops(d) = {} \/ i <= Min(SwitchStops(d))))
SwitchMarks == {"D"} \cup {"T" \o usize_to_string(i) : i \in 1..3} \cup {"S" \o usize_to_string(i) : i \in 1..3}
SwitchOutcome(d) ==
    IF SwitchStops(d) = {} \/ d.cases[Min(SwitchStops(d))].body = "break"
    THEN Completes(Undefined)
    ELSE LeafOutcome(d.cases[Min(SwitchStops(d))].body)

C8_WitnessFirstMatch ==
    /\ Done("Switch") /\ program.disc = 1 /\ Len(program.cases) = 3
    /\ program.cases[1].test = 1 /\ program.cases[2].test = 1 /\ program.cases[3].test = 0
    /\ program.cases[1].body = "normal" /\ program.cases[2].body = "normal" /\ program.cases[3].body = "continue"
    /\ Markers(Locs, SwitchMarks) = <<"D", "T1", "S1", "S2", "S3">>
    /\ result = Fails(JumpContinue(""))

\* the leaf the body of the loop runs when the counter is i
ForLeafAt(d, i) == IF i = d.at THEN d.leaf ELSE d.other
ForNextI(d, i) == IF d.has_update THEN i + 1 ELSE i

RECURSIVE ForExpected(_, _)
\* the test, body and update steps of the loop from the iteration with counter i on
ForExpected(d, i) ==
    IF d.has_test /\ ~(i < d.limit) THEN <<"T">>
    ELSE (IF d.has_test THEN <<"T">> ELSE <<>>) \o <<"B">> \o
         (IF ForGoesOn(d, ForLeafAt(d, i))
          THEN (IF d.has_update THEN <<"U">> ELSE <<>>) \o ForExpected(d, ForNextI(d, i))
          ELSE <<>>)

RECURSIVE ForOutcome(_, _)
\* how the loop ends
ForOutcome(d, i) ==
    IF d.has_test /\ ~(i < d.limit) THEN Completes(Undefined)
    ELSE IF ForGoesOn(d, ForLeafAt(d, i)) THEN ForOutcome(d, ForNextI(d, i))
    ELSE IF ForLeafAt(d, i) = "break" \/ (d.labeled /\ ForLeafAt(d, i) = "break_L") THEN Completes(Undefined)
    ELSE LeafOutcome(ForLeafAt(d, i))

ForMarks == {"I", "T", "B", "U"}

\* C9: a for statement interprets init once, evaluates the test before every
\* iteration and ends normally when it is falsy, evaluates the update once after
\* a body that completes or continues without label, ends normally on an
\* unlabeled break without a further update or test, and lets any other failure
\* of the body out without an update.
C9_ForOrder ==
    Done("For") =>
        /\ Markers(Locs, ForMarks) = <<"I">> \o ForExpected(program, 0)
        /\ result = ForOutcome(program, 0)

\* one iteration that continues, then one that breaks
C9_Witness ==
    /\ Done("For") /\ program.has_test /\ program.has_update
    /\ program.other = "continue" /\ program.leaf = "break" /\ program.at = 1
    /\ Markers(Locs, ForMarks) = <<"I", "T", "B", "U", "T", "B">>
    /\ result = Completes(Undefined)

\* a labeled jump leaves the loop without an update
C9_WitnessPropagates ==
    /\ Done("For") /\ program.leaf = "continue_L" /\ program.at = 0
    /\ Count(Locs, "U") = 0 /\ result = Fails(JumpContinue("L"))

\* C10: in `L: for (...) ...` a `continue L` restarts the loop with one update
\* and then the test, without init, however often it is raised, and a `break L`
\* completes the statement; in `L: { ... }` a `break L` completes the statement;
\* jumps with another label, unlabeled jumps and exceptions pass through.
C10_LabelJumps ==
    /\ Done("Label") =>
        /\ Markers(Locs, ForMarks) = <<"I">> \o ForExpected(program, 0)
        /\ result = ForOutcome(program, 0)
    /\ (Done("LabelBlock") /\ program.leaf # "continue_L") =>
        result = (IF program.leaf = "break_L" THEN Completes(Undefined) ELSE LeafOutcome(program.leaf))

\* `continue L` twice, then `break L`
C10_Witness ==
    /\ Done("Label") /\ program.has_test /\ program.has_update
    /\ program.other = "continue_L" /\ program.leaf = "break_L" /\ program.at = 2 /\ program.limit > 2
    /\ Markers(Locs, ForMarks) = <<"I", "T", "B", "U", "T", "B", "U", "T", "B">>
    /\ result = Completes(Undefined)

\* a jump with another label passes through after the loop was restarted
C10_WitnessOtherLabel ==
    /\ Done("Label") /\ program.other = "continue_L" /\ program.leaf = "break_M" /\ program.at = 1
    /\ Count(Locs, "U") = 1 /\ result = Fails(JumpBreak("M"))

RECURSIVE Concat(_)
Concat(q) == IF q = <<>> THEN "" ELSE Head(q) \o Concat(Tail(q))
\* how often the key occurs in the string of visited keys
Occurs(str, k) == Cardinality({i \in 1..Len(str) : i + Len(k) - 1 <= Len(str) /\ SubSeq(str, i, i + Len(k) - 1) = k})
GlobalVar(name) == JSObject_get_own_value(Heap_get(heap, GLOBAL), name).value

\* the own keys of the iteratee in insertion order, the indices of an array first
ForInOwnKeys(d) == [i \in 1..d.len |-> usize_to_string(i - 1)] \o d.keys
\* the key of Object.prototype, unless a nearer property of that name stands before it
ForInInherited(d) ==
    IF d.proto_key = "" \/ d.proto_key \in SeqRange(d.keys) \/ (d.is_array /\ d.proto_key = "pop")
    THEN <<>> ELSE <<d.proto_key>>

\* C6: for-in visits the enumerable own keys of each object on the prototype
\* chain in insertion order, the indices of an array in ascending order before
\* its other keys; `for (var k in {x:1,y:2}) s += k` yields "xy".
C6_InsertionOrder ==
    (Done("ForIn") /\ program.effect = "none") =>
        result = Completes(String(Concat(ForInOwnKeys(program) \o ForInInherited(program))))

\* the loop of the example, with an outcome other than "xy"
C6_Diverges ==
    /\ Done("ForIn") /\ program.effect = "none" /\ ~program.is_array
    /\ program.keys = <<"x", "y">> /\ program.proto_key = ""
    /\ result = Completes(String("yx"))

\* C7 (once): the body runs at most once for a key name over the whole chain.
C7_OncePerKey ==
    Done("ForIn") =>
        \A k \in HashedKeys \cup {"z", "pop"} : Occurs(result.val.v.s, k) <= 1

\* C7 (hidden): a key whose nearest occurrence is not enumerable is not visited.
C7_HiddenNotVisited ==
    (Done("ForIn") /\ program.is_array /\ program.proto_key = "pop") =>
        Occurs(result.val.v.s, "pop") = 0

\* C7: the body of a for-in loop runs at most once per key name, never for a
\* key whose nearest occurrence on the chain is not enumerable, and never for a
\* property that was removed from its object before the loop reached it.
C7_NoVanishedKey ==
    Done("ForIn") =>
        /\ \A k \in HashedKeys \cup {"z", "pop"} : Occurs(result.val.v.s, k) <= 1
        /\ (program.is_array /\ program.proto_key = "pop") => Occurs(result.val.v.s, "pop") = 0
        /\ GlobalVar("gone") = Number(0)

\* a removed property of a plain object is skipped
C7_DeletedSkipped ==
    /\ Done("ForIn") /\ program.effect = "delete_y" /\ program.keys = <<"x", "y">>
    /\ program.proto_key = "" /\ result = Completes(String("x"))

\* C11: a `var` of the program level is bound in the scope that outlives the
\* body block of the program and holds its initializer, so a later program on
\* the same heap reads it: after `var x = 12`, `x + 8` yields 20.
C11_VarPersists ==
    /\ (Done("Decl") /\ program.level = "program") =>
        /\ heap.scope = NULL
        /\ GlobalVar(program.name) = Number(program.init)
    /\ (phase = "again" /\ program.first.level = "program" /\ program.name = program.first.name) =>
        result = Completes(Number(program.first.init + program.add))

C11_Witness ==
    /\ phase = "again" /\ program.first.level = "program"
    /\ program.first.name = "x" /\ program.first.init = 12
    /\ program.name = "x" /\ program.add = 8
    /\ result = Completes(Number(20))

\* a binding of the body block does not outlive the program
C11_WitnessBlockBinding ==
    /\ phase = "again" /\ program.first.level = "block" /\ program.name = program.first.name
    /\ result = Fails(ReferenceNotFound(program.name))

\* C12: a write to a read-only property by an assignment, an update, the
\* initializer of a variable declaration or the target of a for-in loop raises
\* nothing, leaves the property as it was, and the next statement runs.
C12_ReadonlyIgnored ==
    (Done("Readonly") /\ program.target = "ro") =>
        /\ result = Completes(Number(1))
        /\ GlobalVar("ro") = Number(1)
        /\ Count(Locs, "N") = 1
        /\ program.site \in {"forin", "forin_var"} => Count(Locs, "B") = 1

C12_Witness ==
    /\ Done("Readonly") /\ program.target = "ro" /\ program.site = "assign_plus" /\ program.value = 5
    /\ Count(Locs, "W") = 1 /\ Count(Locs, "N") = 1
    /\ result = Completes(Number(1))

\* the same writes reach a writable property
C12_WitnessWritable ==
    /\ Done("Readonly") /\ program.target = "rw" /\ program.site = "forin_var"
    /\ result = Completes(String("x"))

\* the first sub-expression of the program that fails, or 0
OrderFirstFailure(d) ==
    IF \E i \in 1..OrderArity(d.kind) : d.subs[i] = "fail"
    THEN Min({i \in 1..OrderArity(d.kind) : d.subs[i] = "fail"})
    ELSE 0
OrderEvaluated(d) == IF OrderFirstFailure(d) = 0 THEN OrderArity(d.kind) ELSE OrderFirstFailure(d)
OrderMarks == {"E" \o usize_to_string(i) : i \in 1..4}

\* C13: binary, array, object and sequence expressions evaluate their
\* sub-expressions in source order (left before right, elements by index, a
\* computed key before its value, a property before the next), and a failing
\* sub-expression keeps all later ones from being evaluated.
C13_LeftToRight ==
    Done("Order") =>
        /\ Markers(Locs, OrderMarks) = [i \in 1..OrderEvaluated(program) |-> "E" \o usize_to_string(i)]
        /\ result.ok = (OrderFirstFailure(program) = 0)
        /\ ~result.ok => result.exc.x = "TypeError"

C13_Witness ==
    /\ Done("Order") /\ program.kind = "object"
    /\ program.subs = [i \in 1..4 |-> IF i = 3 THEN "fail" ELSE "ok"]
    /\ Markers(Locs, OrderMarks) = <<"E1", "E2", "E3">>
    /\ ~result.ok

C13_WitnessBinary ==
    /\ Done("Order") /\ program.kind = "binary" /\ program.subs[1] = "ok" /\ program.subs[2] = "ok"
    /\ Markers(Locs, OrderMarks) = <<"E1", "E2">>
    /\ result = Completes(Number(3))

\* the value of the right-hand side, evaluated first
AssignRhs(d) ==
    CASE d.value = "lit" -> Number(d.lit)
      [] d.value = "k" -> String("p")
      [] d.value = "assign_x" -> Number(5)
\* the old value of `x`, read after the right-hand side was evaluated
AssignOld(d) == IF d.value = "assign_x" THEN Number(5) ELSE Number(d.x0)
AssignNew(d) ==
    CASE d.op = "" -> AssignRhs(d)
      [] d.op = "Plus" -> JSValue_plus(AssignOld(d), AssignRhs(d))
      [] d.op = "Minus" -> Number(AssignOld(d).n - AssignRhs(d).n)
\* the value of property `name` of the object the global `o` refers to
FieldOfO(name) == JSObject_get_own_value(Heap_get(heap, GlobalVar("o").n), name).value

\* C14: an assignment evaluates its target before its value, so what the
\* target expression does is seen by the value expression:
\* `k = "p"; o[k = "q"] = k` stores "q".
C14_TargetFirst ==
    Done("Assign") =>
        /\ FirstAt(Locs, "L") < FirstAt(Locs, "R")
        /\ (program.target = "o_k" /\ program.value = "k") => result = Completes(String("q"))

\* the assignment of the example stores the value `k` had before the target ran
C14_Diverges ==
    /\ Done("Assign") /\ program.target = "o_k" /\ program.value = "k" /\ program.op = ""
    /\ FirstAt(Locs, "R") < FirstAt(Locs, "L")
    /\ result = Completes(String("p")) /\ FieldOfO("q") = String("p")

\* C16: an assignment evaluates its right-hand side, then its left-hand side as
\* an lvalue; a compound operator reads the old value through the lvalue after
\* both and combines op(old, rhs); the result is written through the lvalue and
\* is the value of the assignment expression.
C16_RhsThenLvalue ==
    Done("Assign") =>
        /\ FirstAt(Locs, "R") < FirstAt(Locs, "L")
        /\ program.target = "x" =>
            /\ result = Completes(AssignNew(program))
            /\ GlobalVar("x") = AssignNew(program)
        /\ program.target = "o_k" =>
            /\ result = Completes(AssignRhs(program))
            /\ FieldOfO("q") = AssignRhs(program)
            /\ GlobalVar("k") = String("q")

\* x = 1; x += (x = 5) yields 10: the old value is read after the right-hand side
C16_Witness ==
    /\ Done("Assign") /\ program.target = "x" /\ program.op = "Plus"
    /\ program.value = "assign_x" /\ program.x0 = 1
    /\ result = Completes(Number(10)) /\ GlobalVar("x") = Number(10)

CallFirstFailure(d) == IF \E i \in 1..2 : d.args[i] = "fail" THEN Min({i \in 1..2 : d.args[i] = "fail"}) ELSE 0
CallMarks == {"A1", "A2", "C"}
\* the function is dispatched: every argument and the callee completed, and a
\* new expression found the function's own `prototype`
CallDispatched(d) ==
    /\ CallFirstFailure(d) = 0
    /\ d.callee = "F"
    /\ d.form = "new" => d.prototype = "own"

\* C15: a call or new expression evaluates its arguments left to right, then
\* its callee, and dispatches the function after that; when an argument or the
\* callee fails the function is not invoked.
C15_ArgumentsThenCallee ==
    Done("Call") =>
        /\ Markers(Locs, CallMarks) =
               IF CallFirstFailure(program) = 0 THEN <<"A1", "A2", "C">>
               ELSE [i \in 1..CallFirstFailure(program) |-> "A" \o usize_to_string(i)]
        /\ GlobalVar("calls") = Number(IF CallDispatched(program) THEN 1 ELSE 0)
        /\ CallDispatched(program) => GlobalVar("at") = String("C") /\ GlobalVar("argc") = Number(2)
        /\ (CallFirstFailure(program) # 0 \/ program.callee # "F") => ~result.ok

C15_Witness ==
    /\ Done("Call") /\ program.form = "call" /\ program.callee = "F"
    /\ program.args = [i \in 1..2 |-> "ok"]
    /\ Markers(Locs, CallMarks) = <<"A1", "A2", "C">>
    /\ GlobalVar("calls") = Number(1) /\ GlobalVar("at") = String("C")

C15_WitnessNewArgumentFails ==
    /\ Done("Call") /\ program.form = "new" /\ program.callee = "F" /\ program.prototype = "own"
    /\ program.args = [i \in 1..2 |-> IF i = 2 THEN "fail" ELSE "ok"]
    /\ Markers(Locs, CallMarks) = <<"A1", "A2">>
    /\ GlobalVar("calls") = Number(0) /\ ~result.ok

\* the objects of the heap the program starts on: those of a new heap, the
\* `prototype` object of F and F itself
NewPrototype == Len(Heap_new(<<>>).objs) + 1
NewHeapBefore == Len(Heap_new(<<>>).objs) + 2
\* the objects the evaluation allocated, its scope objects apart
NewAllocated ==
    {i \in (NewHeapBefore + 1)..Len(heap.objs) : ~JSObject_has_own(heap.objs[i], SAVED_SCOPE)}
\* `new F(1, 2)`: the arguments and the callee complete
NewOfF == Done("Call") /\ program.form = "new" /\ program.callee = "F" /\ CallFirstFailure(program) = 0

\* C17: `new F(...)` fails with a TypeError and without invoking F when F has
\* no own `prototype` property; otherwise it allocates exactly one object,
\* whose proto is F.prototype, invokes F with `this` bound to that object, and
\* yields what F returned when that is a non-null object reference and the
\* fresh object in every other case.
C17_New ==
    NewOfF =>
        IF program.prototype # "own"
        THEN /\ ~result.ok /\ result.exc.x = "TypeError"
             /\ GlobalVar("calls") = Number(0)
             /\ NewAllocated = {}
        ELSE /\ Cardinality(NewAllocated) = 1
             /\ \A o \in NewAllocated :
                    /\ heap.objs[o].proto = NewPrototype
                    /\ GlobalVar("self") = Ref(o)
                    /\ GlobalVar("r") = IF program.returns = "object" THEN Ref(ARRAY_PROTO) ELSE Ref(o)
             /\ GlobalVar("calls") = Number(1)
             /\ result.ok

C17_Witness ==
    /\ NewOfF /\ program.prototype = "own" /\ program.returns = "number"
    /\ GlobalVar("calls") = Number(1)
    /\ GlobalVar("r").n \in NewAllocated
    /\ heap.objs[GlobalVar("r").n].proto = NewPrototype

C17_WitnessReturnedObject ==
    /\ NewOfF /\ program.prototype = "own" /\ program.returns = "object"
    /\ GlobalVar("r") = Ref(ARRAY_PROTO) /\ Cardinality(NewAllocated) = 1

C17_WitnessNoPrototype ==
    /\ NewOfF /\ program.prototype = "inherited"
    /\ ~result.ok /\ result.exc.x = "TypeError" /\ GlobalVar("calls") = Number(0)

\* the proto slot of the object the global `o` refers to
ProtoOfO == Heap_get(heap, GlobalVar("o").n).proto

\* C18: `__proto__` in a member expression reads and writes the prototype
\* slot: `o.__proto__` yields the proto of o, and after `o.__proto__ = p` the
\* proto of o is p, a read of `o.__proto__` yields p and a lookup on o
\* consults p.
C18_ProtoReadWrite ==
    Done("Proto") =>
        /\ result.ok
        /\ GlobalVar("q") = Ref(ProtoOfO)
        /\ program.op = "read" =>
               ProtoOfO = (IF program.base = "array" THEN ARRAY_PROTO ELSE OBJECT_PROTO)
        /\ program.op = "write" =>
               /\ ProtoOfO = GlobalVar("p").n
               /\ program.parent = "object" => GlobalVar("r") = Number(2)

\* reading `o.__proto__` yields the proto of o
C18_ProtoRead ==
    (Done("Proto") /\ program.op = "read") =>
        /\ result.ok
        /\ GlobalVar("q") = Ref(ProtoOfO)
        /\ ProtoOfO = (IF program.base = "array" THEN ARRAY_PROTO ELSE OBJECT_PROTO)

\* `p = {y: 2}; o = {}; o.__proto__ = p` leaves the proto of o as it was
C18_Diverges ==
    /\ Done("Proto") /\ program.op = "write" /\ program.base = "object" /\ program.parent = "object"
    /\ Count(Locs, "W") = 1
    /\ GlobalVar("p").t = "object" /\ GlobalVar("p").n # OBJECT_PROTO
    /\ ProtoOfO = OBJECT_PROTO

\* the shift count of the language: the low 5 bits of the right operand
ShiftCount(b) == b % 32
\* the left operand read as unsigned 32-bit is a itself when a >= 0 and
\* a + 2^32 otherwise; shifted right by c >= 1 the latter is 2^(32-c) + (a \div 2^c)
ShiftUnsigned(a, c) ==
    IF a >= 0 THEN u32_shr(a, c)
    ELSE (i32_MAX \div 2^(c - 1)) + (i32_shr(a, c) + 1)

\* C19: on 32-bit integers `<<`, `>>` and `>>>` shift the left operand by the
\* low 5 bits of the right operand; `<<` and `>>` read the left operand as
\* signed, `>>>` reads it as unsigned and yields the whole shifted value
\* (`x >>> 0` is x + 2^32 for a negative x, `256 >>> 1` is 128).
C19_Shifts ==
    Done("Shift") =>
        /\ result.ok
        /\ GlobalVar("r").t = "number"
        /\ program.op = "LtLt" => GlobalVar("r").n = i32_shl(program.a, ShiftCount(program.b))
        /\ program.op = "GtGt" => GlobalVar("r").n = i32_shr(program.a, ShiftCount(program.b))
        /\ program.op = "GtGtGt" =>
               IF program.a < 0 /\ ShiftCount(program.b) = 0
               THEN (GlobalVar("r").n - i32_MAX) - 1 = (program.a + i32_MAX) + 1
               ELSE GlobalVar("r").n = ShiftUnsigned(program.a, ShiftCount(program.b))

\* with a count in 0..31, `<<` and `>>` are the signed 32-bit shifts
C19_SignedShifts ==
    (Done("Shift") /\ program.b \in 0..31) =>
        /\ program.op = "LtLt" => GlobalVar("r") = Number(i32_shl(program.a, program.b))
        /\ program.op = "GtGt" => GlobalVar("r") = Number(i32_shr(program.a, program.b))

\* `256 >>> 1` is 0
C19_Diverges ==
    /\ Done("Shift") /\ program.op = "GtGtGt" /\ program.a = 256 /\ program.b = 1
    /\ result = Completes(Number(0))

\* `-1 >>> 0` is 0
C19_DivergesUnsigned ==
    /\ Done("Shift") /\ program.op = "GtGtGt" /\ program.a = -1 /\ program.b = 0
    /\ result = Completes(Number(0))

\* `1 << -1` is 1
C19_DivergesCount ==
    /\ Done("Shift") /\ program.op = "LtLt" /\ program.a = 1 /\ program.b = -1
    /\ result = Completes(Number(1))

\* `1 >>> 32` panics in a build with overflow checks
C19_DivergesPanic ==
    /\ Done("Shift") /\ program.op = "GtGtGt" /\ program.a = 1 /\ program.b = 32
    /\ heap.overflow_checks /\ ~result.ok /\ result.exc.x = "Panic"

\* the class of the diagnostic a statement of the Catch family raises
CatchTag(kind) == IF kind = "reference" THEN "ReferenceNotFound" ELSE "TypeError"
CatchDiagnostic(kind) == kind # "thrown"
\* the texts an Error object made for an error of class `tag` can carry
CatchMessages(tag) == {String(tag \o "(" \o m \o ")") : m \in {"not an object", "not callable", "nope"}}
\* the value is a reference to an object that the evaluation allocated
CatchAllocated(v) == v.t = "object" /\ v.n > Len(Heap_new(<<>>).objs) /\ v.n <= Len(heap.objs)

C20_WitnessThrown ==
    /\ Done("Catch") /\ program.first = "thrown" /\ program.second = "not_callable"
    /\ GlobalVar("m1") = String("mine")
    /\ GlobalVar("m2") = String("TypeError(not callable)")

\* the function object a global variable of the Func family refers to
FuncObject(name) == Heap_get(heap, GlobalVar(name).n)
\* the object the own `prototype` property of that function refers to
FuncPrototype(name) == JSObject_get_own_value(FuncObject(name), "prototype").value
\* the own property `constructor` of the object `v` refers to
FuncConstructor(v) == Heap_get(heap, v.n).props[JSObject_index_of(Heap_get(heap, v.n), "constructor")]

\* C21: every evaluation of a function expression allocates a new function
\* object that captures the scope current at the evaluation, and a new
\* prototype object of its own: the `prototype` property of the function
\* refers to it, its `constructor` property refers back to the function and
\* is not enumerable, so a for-in over the prototype or over an instance
\* never visits `constructor`.
C21_FunctionObjects ==
    Done("Func") =>
        /\ result.ok
        /\ \A v \in {GlobalVar("f"), GlobalVar("g"), FuncPrototype("f"), FuncPrototype("g")} :
               CatchAllocated(v)
        /\ Cardinality({GlobalVar("f"), GlobalVar("g"), FuncPrototype("f"), FuncPrototype("g")}) = 4
        /\ FuncObject("f").closure = Closure("F", ScopeAt("F1"))
        /\ FuncObject("g").closure = Closure(program.second, ScopeAt("F2"))
        /\ \A name \in {"f", "g"} :
               /\ JSObject_has_own(FuncObject(name), "prototype")
               /\ JSObject_has_own(Heap_get(heap, FuncPrototype(name).n), "constructor")
               /\ FuncConstructor(FuncPrototype(name)).value = GlobalVar(name)
               /\ ENUM \notin FuncConstructor(FuncPrototype(name)).access
        /\ Heap_get(heap, GlobalVar("o").n).proto = FuncPrototype("f").n
        /\ result.val = Value(String(IF program.own THEN "m" ELSE ""))

\* the same function is evaluated twice, once inside a block, and the walk
\* over an instance visits the property the prototype was given
C21_Witness ==
    /\ Done("Func")
    /\ program.first_in_block /\ ~program.second_in_block /\ program.second = "F"
    /\ ScopeAt("F1") # ScopeAt("F2")
    /\ GlobalVar("f") # GlobalVar("g")
    /\ program.iterate = "instance" /\ result.val = Value(String("m"))

\* the heap as it was when the statement at `loc` began
VarSnapshot(loc) ==
    [heap EXCEPT !.objs = heap.trace[FirstAt(Locs, loc)].objs, !.scope = heap.trace[FirstAt(Locs, loc)].scope]
\* the object on which the scope chain finds `name` before the declaration
VarOwner(name) == Heap_lookup_scope(VarSnapshot("decl"), Heap_local_scope_or_global(VarSnapshot("decl")), name)
\* the values the declaration and its initializers write, in source order
VarFirst == VarOrder(program)[1]
VarLast == VarOrder(program)[3]
VarWritten(name) ==
    CASE name = VarFirst -> String(VarFirst)
      [] name \in {VarLast, "s"} -> String(VarFirst \o VarLast)

\* C22: a variable declaration creates no binding.  A declarator with an
\* initializer evaluates it and overwrites the hoisted binding on the object
\* on which the scope chain finds the name; a declarator without one changes
\* nothing; the declarators act in source order; no object gains or loses a
\* property name.
C22_DeclarationKeepsBindings ==
    Done("Var") =>
        Let(VarSnapshot("decl").objs, LAMBDA pre :
        Let(VarSnapshot("after").objs, LAMBDA post :
        /\ result = Completes(String(VarFirst \o VarLast))
        /\ Len(post) = Len(pre)
        /\ \A i \in 1..Len(pre) :
               /\ JSObject_keys(post[i]) = JSObject_keys(pre[i])
               /\ \A k \in 1..Len(pre[i].props) :
                      post[i].props[k] =
                          IF pre[i].props[k].name \in {VarFirst, VarLast, "s"} /\ i = VarOwner(pre[i].props[k].name)
                          THEN [pre[i].props[k] EXCEPT !.value = VarWritten(pre[i].props[k].name)]
                          ELSE pre[i].props[k]))

\* inside a block that binds `a`: `a` is written on the scope of the block
\* and `c` on the global object, whose `a` and `b` keep the value they had
C22_Witness ==
    /\ Done("Var")
    /\ program.in_block /\ program.bindings = <<"a">> /\ program.preset /\ ~program.reversed
    /\ VarOwner("a") = VarSnapshot("decl").scope /\ VarOwner("a") # GLOBAL
    /\ VarOwner("c") = GLOBAL
    /\ GlobalVar("a") = String("o") /\ GlobalVar("b") = String("o") /\ GlobalVar("c") = String("ac")
    /\ JSObject_get_own_value(VarSnapshot("after").objs[VarOwner("a")], "a").value = String("a")

\* the first statement of the block that fails, 0 when none does
SeqFailsAt(kinds) == Min({i \in 1..Len(kinds) : kinds[i] = "throw"} \cup {Len(kinds) + 1}) % (Len(kinds) + 1)
\* the number of statements of the block that run
SeqRuns(kinds) == IF SeqFailsAt(kinds) = 0 THEN Len(kinds) ELSE SeqFailsAt(kinds)
\* the value of the i-th statement
SeqValue(kinds, i) == IF i > 0 /\ kinds[i] = "expr" THEN Number(i) ELSE Undefined
\* the last assignment among the first n statements, 0 when there is none
SeqLastAssigned(kinds, n) ==
    CHOOSE i \in 0..n : (i > 0 => kinds[i] = "expr") /\ \A j \in (i + 1)..n : kinds[j] # "expr"

\* C23: the value of a block, and so of a program, is the value of the last
\* statement it executed, and undefined for an empty block; the statements
\* run in source order, and the first one that fails ends the block with its
\* exception before any later statement runs.
C23_BlockValue ==
    Done("Seq") =>
        Let(program.kinds, LAMBDA kinds :
        /\ Markers(Locs, {SeqTag(i) : i \in 1..MaxSeqLen}) = [i \in 1..SeqRuns(kinds) |-> SeqTag(i)]
        /\ result = IF SeqFailsAt(kinds) = 0
                    THEN Completes(SeqValue(kinds, Len(kinds)))
                    ELSE Fails(UserThrown(Number(SeqFailsAt(kinds))))
        /\ GlobalVar("t") = SeqValue(kinds, SeqLastAssigned(kinds, SeqRuns(kinds))))

\* a value, then a statement without one: the block has no value
C23_Witness ==
    /\ Done("Seq")
    /\ program.kinds = <<"expr", "expr", "empty">> /\ program.nested
    /\ result = Completes(Undefined) /\ GlobalVar("t") = Number(2)

\* the second statement fails: the third does not run
C23_WitnessAborts ==
    /\ Done("Seq")
    /\ program.kinds = <<"expr", "throw", "expr">>
    /\ result = Fails(UserThrown(Number(2))) /\ GlobalVar("t") = Number(1)
    /\ Count(Locs, SeqTag(3)) = 0

\* the empty program
C23_WitnessEmpty == Done("Seq") /\ program.kinds = <<>> /\ ~program.nested /\ result = Completes(Undefined)

\* the type name `typeof` gives for an operand that can be evaluated
TypeofName(kind) ==
    CASE kind \in {"unresolved", "undefined", "missing_member"} -> "undefined"
      [] kind \in {"number", "literal"} -> "number"
      [] kind \in {"string", "member"} -> "string"
      [] kind = "boolean" -> "boolean"
      [] kind = "object" -> "object"

\* C24: `typeof` of an identifier that has no binding is "undefined" and
\* raises nothing; `typeof` of an operand that resolves is the name of the
\* type of its value; an exception raised while the operand expression is
\* evaluated (a member of an undefined or unbound base) propagates.
C24_Typeof ==
    Done("Typeof") =>
        CASE program.operand = "member_of_undefined" ->
                 /\ ~result.ok /\ result.exc.x = "TypeError"
                 /\ GlobalVar("t") = Undefined /\ Count(Locs, "R") = 0
          [] program.operand = "member_of_unresolved" ->
                 /\ result = Fails(ReferenceNotFound("nope"))
                 /\ GlobalVar("t") = Undefined /\ Count(Locs, "R") = 0
          [] OTHER ->
                 /\ result = Completes(String(TypeofName(program.operand)))
                 /\ GlobalVar("t") = String(TypeofName(program.operand))

\* an identifier without a binding, inside a block: no exception
C24_Witness ==
    /\ Done("Typeof")
    /\ program.operand = "unresolved" /\ program.in_block
    /\ ~JSObject_has_own(Heap_get(heap, GLOBAL), "nope")
    /\ result = Completes(String("undefined"))

\* the operand is a member of an undefined base: the TypeError propagates
C24_WitnessPropagates ==
    /\ Done("Typeof")
    /\ program.operand = "member_of_undefined"
    /\ ~result.ok /\ result.exc.x = "TypeError"

\* the string form of the property expression of the program
MemberName(kind) == CASE kind = "assign" -> "1" [] kind = "string" -> "k" [] kind = "number" -> "2"

\* C25: in `a[e]` the object expression is evaluated before the property
\* expression; when `a` is undefined the expression fails with a TypeError
\* and the side effects of `e` have not happened; otherwise the result is
\* the lvalue Member{of: the object of a, name: the string form of e}.
C25_ObjectFirst ==
    Done("Member") =>
        IF program.base = "undefined"
        THEN /\ ~result.ok /\ result.exc.x = "TypeError"
             /\ GlobalVar("n") = Number(0)
             /\ Count(Locs, "prop") = 0
        ELSE /\ Markers(Locs, {"obj", "prop"}) = <<"obj", "prop">>
             /\ result.ok
             /\ program.write =>
                    JSObject_get_own_value(Heap_get(heap, GlobalVar("o").n), MemberName(program.prop)).value = Number(7)

\* what the evaluation does: the property expression runs first, so its side
\* effects precede the TypeError of an undefined base
C25_PropertyFirst ==
    Done("Member") =>
        /\ Markers(Locs, {"obj", "prop"}) = <<"prop", "obj">>
        /\ IF program.base = "undefined"
           THEN /\ ~result.ok /\ result.exc.x = "TypeError"
                /\ GlobalVar("n") = Number(IF program.prop = "assign" THEN 1 ELSE 0)
           ELSE /\ result = Completes(GlobalVar("n"))
                /\ program.write =>
                       JSObject_get_own_value(Heap_get(heap, GlobalVar("o").n), MemberName(program.prop)).value
                           = Number(7)
                /\ ~program.write => GlobalVar("r") = Undefined

\* `u[n = 1]` with `u` undefined: the TypeError is raised after `n = 1`
C25_Diverges ==
    /\ Done("Member")
    /\ program.base = "undefined" /\ program.prop = "assign"
    /\ ~result.ok /\ result.exc.x = "TypeError"
    /\ GlobalVar("n") = Number(1)
    /\ Markers(Locs, {"obj", "prop"}) = <<"prop", "obj">>

====
